---- MODULE Spec2Model ----
(***************************************************************************)
(* A model of the JellyCode server: the per-user LLM rate limiter and the  *)
(* POST /api/llm handler (server/routes.ts), the workspace file manager    *)
(* (server/lib/fileSystem.ts), the storage layer (server/storage.ts over   *)
(* the tables of shared/schema.ts) and the authenticated route table.      *)
(***************************************************************************)
EXTENDS Integers, Sequences, FiniteSets, TLC

VARIABLES
  now,               \* Date.now(), in milliseconds
  ticks,             \* how often the clock has advanced
  llmRequestCounts,  \* routes.ts:13, userId -> {count, resetTime} or NoEntry
  awaiting,          \* userId -> number of handlers suspended at `await aiAssistant...`
  last,              \* the request handled last, up to its first await
  done,              \* the response sent last by a handler resumed after its await
  winStart,          \* history: userId -> time of the request that opened the user's window
  seen,              \* history: userId -> authenticated requests since winStart (capped)
  passed,            \* history: userId -> requests since winStart that passed the limiter
  relieved,          \* history: userId -> the user's last request opened a window after a 429
  users,             \* schema.ts:6, the rows of table users
  projects,          \* schema.ts:12, the rows of table projects
  files,             \* schema.ts:19, the rows of table files
  nextProjectId,     \* the next id gen_random_uuid() gives a project
  nextFileId,        \* the next id gen_random_uuid() gives a file
  deleting,          \* project id -> where the deleteProject call in flight stands
  deleted,           \* history: the project ids whose deleteProject call has returned
  cascaded,          \* history: those of them whose call removed files
  pathOp,            \* the FileSystemManager method called
  pathArg,           \* its relativePath argument
  pathResult,        \* what getFullPath made of it
  disk,              \* the file system below process.cwd()
  fsLast,            \* the last FileSystemManager call and its result
  written,           \* history: content last written to a path, until the
                     \* next write or delete of that path
  uprooted,          \* history: a directory above the path was deleted since
  niCounts,          \* llmRequestCounts in each of two runs of the server
  niLast,            \* the responses of the two runs to the same request
  repo,              \* the Git repository of the workspace
  reply,             \* the last request to a protected endpoint and its answer
  filesLast,         \* the last POST /api/files request, its answer and its effect
  dbLast,            \* the last createUser or updateFile call and its error
  passLog,           \* per user, when and how many requests passed checkRateLimit
  git,               \* the workspace as Git sees it: repository, index, branches, history
  gitLast,           \* the last GitManager call or Git request and its outcome
  statusLast         \* the last result of git status and what getStatus made of it

llmVars == <<now, ticks, llmRequestCounts, awaiting, last, done,
             winStart, seen, passed, relieved>>

dbVars == <<users, projects, files, nextProjectId, nextFileId, deleting,
           deleted, cascaded>>

pathVars == <<pathOp, pathArg, pathResult>>

fsVars == <<disk, fsLast, written, uprooted>>

niVars == <<niCounts, niLast>>

apiVars == <<repo, reply>>

gitVars == <<git, gitLast, statusLast>>
moreVars == <<filesLast, dbLast, passLog, gitVars>>

vars == <<llmVars, dbVars, pathVars, fsVars, niVars, apiVars, moreVars>>

(***************************************************************************)
(* Bounds                                                                  *)
(***************************************************************************)
MaxTicks == 2
MaxInFlight == 2
MaxUsers == 2
MaxDeleting == 1
MaxSegments == 3
MaxProjects == 2
MaxFiles == 2
MaxCommits == 2

Users == {"u1", "u2"}

(***************************************************************************)
(* Rate limiter, routes.ts:13-32                                           *)
(***************************************************************************)
LLM_RATE_LIMIT == 10
LLM_RATE_WINDOW == 60000

NoEntry == [count |-> 0, resetTime |-> -1]

\* the clock advances by one millisecond or by a whole window
TickDeltas == {1, LLM_RATE_WINDOW}

NeverExpired(userLimit, t) == FALSE
ExpiredAtReset(userLimit, t) == t >= userLimit.resetTime
\* routes.ts:21, `now > userLimit.resetTime`
WindowExpired(userLimit, t) == t > userLimit.resetTime

LimitReachedLate(userLimit) == userLimit.count > LLM_RATE_LIMIT
\* routes.ts:26, `userLimit.count >= LLM_RATE_LIMIT`
LimitReached(userLimit) == userLimit.count >= LLM_RATE_LIMIT

\* one counter for all users
checkRateLimitShared(counts, userId, t) ==
  LET shared == CHOOSE u \in Users : TRUE
      userLimit == counts[shared] IN
  IF userLimit = NoEntry \/ WindowExpired(userLimit, t)
  THEN [ok |-> TRUE,
        counts |-> [u \in Users |-> [count |-> 1, resetTime |-> t + LLM_RATE_WINDOW]]]
  ELSE IF LimitReached(userLimit)
  THEN [ok |-> FALSE, counts |-> counts]
  ELSE [ok |-> TRUE,
        counts |-> [u \in Users |-> [count |-> userLimit.count + 1,
                                    resetTime |-> userLimit.resetTime]]]

\* a limiter whose every accepted request starts the 60 seconds anew
checkRateLimitSliding(counts, userId, t) ==
  LET userLimit == counts[userId] IN
  IF userLimit = NoEntry \/ WindowExpired(userLimit, t)
  THEN [ok |-> TRUE,
        counts |-> [counts EXCEPT ![userId] =
                      [count |-> 1, resetTime |-> t + LLM_RATE_WINDOW]]]
  ELSE IF LimitReached(userLimit)
  THEN [ok |-> FALSE, counts |-> counts]
  ELSE [ok |-> TRUE,
        counts |-> [counts EXCEPT ![userId] =
                      [count |-> @.count + 1, resetTime |-> t + LLM_RATE_WINDOW]]]

\* a limiter that counts the requests it rejects
checkRateLimitCountsRejected(counts, userId, t) ==
  LET userLimit == counts[userId] IN
  IF userLimit = NoEntry \/ WindowExpired(userLimit, t)
  THEN [ok |-> TRUE,
        counts |-> [counts EXCEPT ![userId] =
                      [count |-> 1, resetTime |-> t + LLM_RATE_WINDOW]]]
  ELSE [ok |-> ~LimitReached(userLimit),
        counts |-> [counts EXCEPT ![userId].count = @ + 1]]

\* routes.ts:17-32: the result and the map after the call
checkRateLimit(counts, userId, t) ==
  LET userLimit == counts[userId] IN
  IF userLimit = NoEntry \/ WindowExpired(userLimit, t)
  THEN [ok |-> TRUE,
        counts |-> [counts EXCEPT ![userId] =
                      [count |-> 1, resetTime |-> t + LLM_RATE_WINDOW]]]
  ELSE IF LimitReached(userLimit)
  THEN [ok |-> FALSE, counts |-> counts]
  ELSE [ok |-> TRUE,
        counts |-> [counts EXCEPT ![userId].count = @ + 1]]

(***************************************************************************)
(* llmRequestSchema, shared/schema.ts:50-54                                *)
(***************************************************************************)
LlmActions == {"explain", "refactor", "generate-tests", "optimize"}
NoAction == "absent"
MIN_PROMPT == 1
MAX_PROMPT == 10000

\* a request body: the prompt's length and the action field
Bodies ==
  {[prompt |-> MIN_PROMPT, action |-> a] : a \in LlmActions \cup {NoAction, "deploy"}}
  \cup {[prompt |-> n, action |-> NoAction] : n \in {0, MAX_PROMPT, MAX_PROMPT + 1}}
  \cup {[prompt |-> 0, action |-> "deploy"]}

ChatBodies == {[prompt |-> MIN_PROMPT, action |-> NoAction]}
LimiterBodies == ChatBodies \cup {[prompt |-> 0, action |-> NoAction]}

llmRequestSchemaNoMax(body) ==
  /\ body.prompt >= MIN_PROMPT
  /\ body.action \in LlmActions \cup {NoAction}
llmRequestSchema(body) ==
  /\ body.prompt >= MIN_PROMPT
  /\ body.prompt <= MAX_PROMPT
  /\ body.action \in LlmActions \cup {NoAction}

\* a switch whose every case falls through to plain chat
AlwaysChat(action) == "chatCompletion"

\* routes.ts:62-77: the assistant method the switch selects
AssistantMethod(action) ==
  CASE action = "explain" -> "explainCode"
    [] action = "refactor" -> "refactorCode"
    [] action = "generate-tests" -> "generateTests"
    [] action = "optimize" -> "optimizeCode"
    [] OTHER -> "chatCompletion"

(***************************************************************************)
(* POST /api/llm, routes.ts:43-84.  The handler runs without interruption  *)
(* up to its first await (the assistant call); LlmResolve resumes it.      *)
(***************************************************************************)
NoUser == "anonymous"
NoCall == "none"
PENDING == 0

\* what the handler does before its first await: the checks made, in order,
\* the status sent (PENDING: none yet), the limiter map, the assistant method
LlmOutcomeSchemaFirst(auth, userId, body, counts, t) ==
  IF ~auth
  THEN [status |-> 401, trace |-> <<"auth">>, counts |-> counts, called |-> NoCall]
  ELSE IF ~llmRequestSchema(body)
  THEN [status |-> 400, trace |-> <<"auth", "schema">>, counts |-> counts,
        called |-> NoCall]
  ELSE LET rl == checkRateLimit(counts, userId, t) IN
       IF ~rl.ok
       THEN [status |-> 429, trace |-> <<"auth", "schema", "rate">>,
             counts |-> rl.counts, called |-> NoCall]
       ELSE [status |-> PENDING, trace |-> <<"auth", "schema", "rate", "assistant">>,
             counts |-> rl.counts, called |-> AssistantMethod(body.action)]
LlmOutcome(auth, userId, body, counts, t) ==
  IF ~auth
  THEN [status |-> 401, trace |-> <<"auth">>, counts |-> counts, called |-> NoCall]
  ELSE LET rl == checkRateLimit(counts, userId, t) IN
       IF ~rl.ok
       THEN [status |-> 429, trace |-> <<"auth", "rate">>, counts |-> rl.counts,
             called |-> NoCall]
       ELSE IF ~llmRequestSchema(body)
       THEN [status |-> 400, trace |-> <<"auth", "rate", "schema">>,
             counts |-> rl.counts, called |-> NoCall]
       ELSE [status |-> PENDING, trace |-> <<"auth", "rate", "schema", "assistant">>,
             counts |-> rl.counts, called |-> AssistantMethod(body.action)]

NoRequest == [auth |-> FALSE, user |-> NoUser, body |-> [prompt |-> 0, action |-> NoAction],
              status |-> PENDING, trace |-> <<>>, called |-> NoCall]
NoResponse == [user |-> NoUser, status |-> PENDING]

SeenCap == LLM_RATE_LIMIT + 1

\* history of the user's window as the specification words it: a window is
\* opened by the first authenticated request when none is open, and is open
\* for the 60 seconds that follow
OpensWindow(userId, t) ==
  winStart[userId] < 0 \/ t - winStart[userId] > LLM_RATE_WINDOW

Min(a, b) == IF a < b THEN a ELSE b

NoteRequest(auth, userId, out, t) ==
  IF ~auth
  THEN UNCHANGED <<winStart, seen, passed, relieved>>
  ELSE LET opens == OpensWindow(userId, t)
           pass == IF out.status = 429 THEN 0 ELSE 1 IN
       /\ winStart' = [winStart EXCEPT ![userId] = IF opens THEN t ELSE @]
       /\ seen' = [seen EXCEPT ![userId] = IF opens THEN 1 ELSE Min(@ + 1, SeenCap)]
       /\ passed' = [passed EXCEPT ![userId] =
                       IF opens THEN pass ELSE Min(@ + pass, SeenCap)]
       /\ relieved' = [relieved EXCEPT ![userId] = opens /\ seen[userId] > LLM_RATE_LIMIT]

\* the requests waiting for the assistant
RECURSIVE SumOver(_, _)
SumOver(f, S) ==
  IF S = {} THEN 0
  ELSE LET x == CHOOSE y \in S : TRUE IN f[x] + SumOver(f, S \ {x})
InFlight == SumOver(awaiting, Users)

HandleLlm(auth, userId, body) ==
  LET out == LlmOutcome(auth, userId, body, llmRequestCounts, now) IN
  /\ out.status = PENDING => InFlight < MaxInFlight
  /\ llmRequestCounts' = out.counts
  /\ awaiting' = IF out.status = PENDING
                 THEN [awaiting EXCEPT ![userId] = @ + 1]
                 ELSE awaiting
  /\ last' = [auth |-> auth, user |-> IF auth THEN userId ELSE NoUser,
              body |-> body, status |-> out.status,
              trace |-> out.trace, called |-> out.called]
  /\ done' = NoResponse
  /\ NoteRequest(auth, userId, out, now)
  /\ UNCHANGED <<now, ticks>>

\* a request arriving when every earlier request has been answered
LlmRequest ==
  \E auth \in BOOLEAN, userId \in Users, body \in Bodies :
    /\ \A u \in Users : awaiting[u] = 0
    /\ HandleLlm(auth, userId, body)

\* the same, with the bodies that matter to the limiter: a valid and an invalid one
LlmRequestTimed ==
  \E auth \in BOOLEAN, userId \in Users, body \in LimiterBodies :
    /\ \A u \in Users : awaiting[u] = 0
    /\ HandleLlm(auth, userId, body)

\* a request arriving while earlier ones of the same user are still in flight
LlmRequestConcurrent ==
  \E userId \in Users, body \in ChatBodies :
    HandleLlm(TRUE, userId, body)

\* routes.ts:79, the assistant call resolves: res.json(response)
LlmResolve ==
  \E userId \in Users :
    /\ awaiting[userId] > 0
    /\ awaiting' = [awaiting EXCEPT ![userId] = @ - 1]
    /\ done' = [user |-> userId, status |-> 200]
    /\ UNCHANGED <<now, ticks, llmRequestCounts, last, winStart, seen, passed,
                   relieved>>

\* routes.ts:80-83, the assistant call rejects: the catch answers 500
LlmReject ==
  \E userId \in Users :
    /\ awaiting[userId] > 0
    /\ awaiting' = [awaiting EXCEPT ![userId] = @ - 1]
    /\ done' = [user |-> userId, status |-> 500]
    /\ UNCHANGED <<now, ticks, llmRequestCounts, last, winStart, seen, passed,
                   relieved>>

Tick ==
  \E d \in TickDeltas :
    /\ ticks < MaxTicks
    /\ ticks' = ticks + 1
    /\ now' = now + d
    /\ UNCHANGED <<llmRequestCounts, awaiting, last, done, winStart, seen, passed,
                   relieved>>


InitLlm ==
  /\ now = 0
  /\ ticks = 0
  /\ llmRequestCounts = [u \in Users |-> NoEntry]
  /\ awaiting = [u \in Users |-> 0]
  /\ last = NoRequest
  /\ done = NoResponse
  /\ winStart = [u \in Users |-> -1]
  /\ seen = [u \in Users |-> 0]
  /\ passed = [u \in Users |-> 0]
  /\ relieved = [u \in Users |-> FALSE]

(***************************************************************************)
(* Storage, server/storage.ts over the tables of shared/schema.ts.  Every  *)
(* method is one awaited statement, except deleteProject, which awaits two. *)
(***************************************************************************)
Usernames == {"alice", "bob"}
ProjectNames == {"demo"}
FilePaths == {"a.ts"}
FileContents == {"v1", "v2"}

\* schema.ts:15 and :23: a foreign key column left unset
NULL_ID == 0

UserIds == 1..MaxUsers
ProjectIds == 1..MaxProjects
FileIds == 1..MaxFiles

\* storage.ts:51-54; the empty set stands for undefined
getUser(id) == {u \in users : u.id = id}
\* storage.ts:56-59
getUserByUsername(username) == {u \in users : u.username = username}
\* storage.ts:70-73
getProject(id) == {p \in projects : p.id = id}
\* storage.ts:100-103
getProjectFiles(projectId) == {f \in files : f.projectId = projectId}
\* storage.ts:95-98
getFile(id) == {f \in files : f.id = id}

NoDbError == "none"
DUPLICATE_USERNAME == "duplicate key value violates unique constraint"
FILE_NOT_FOUND == "File not found"

\* an insert that does not look at the usernames there are
createUserUnchecked(username) ==
  LET id == Cardinality(users) + 1 IN
  /\ id \in UserIds
  /\ users' = users \cup {[id |-> id, username |-> username]}
  /\ UNCHANGED <<projects, files, nextProjectId, nextFileId, deleting, deleted, cascaded>>

\* storage.ts:61-67; schema.ts:8, username is unique
createUserOf(username) ==
  LET id == Cardinality(users) + 1 IN
  /\ IF getUserByUsername(username) # {}
     THEN /\ users' = users
     ELSE /\ id \in UserIds
          /\ users' = users \cup {[id |-> id, username |-> username]}
  /\ UNCHANGED <<projects, files, nextProjectId, nextFileId, deleting, deleted, cascaded>>

\* the error the insert is rejected with
createUserError(username) ==
  IF getUserByUsername(username) # {} THEN DUPLICATE_USERNAME ELSE NoDbError

createUser == \E username \in Usernames : createUserOf(username)

\* an insert whose user_id is not looked up
createProjectUnreferenced ==
  \E name \in ProjectNames, userId \in UserIds :
    /\ nextProjectId \in ProjectIds
    /\ projects' = projects \cup {[id |-> nextProjectId, name |-> name, userId |-> userId]}
    /\ nextProjectId' = nextProjectId + 1
    /\ UNCHANGED <<users, files, nextFileId, deleting, deleted, cascaded>>

\* storage.ts:80-86; schema.ts:15, user_id references users.id
createProject ==
  \E name \in ProjectNames, userId \in UserIds :
    /\ IF getUser(userId) = {}
       THEN /\ UNCHANGED <<projects, nextProjectId>>
       ELSE /\ nextProjectId \in ProjectIds
            /\ projects' = projects \cup
                 {[id |-> nextProjectId, name |-> name, userId |-> userId]}
            /\ nextProjectId' = nextProjectId + 1
    /\ UNCHANGED <<users, files, nextFileId, deleting, deleted, cascaded>>

\* storage.ts:112-118; schema.ts:23, project_id is nullable and references projects.id
createFile ==
  \E path \in FilePaths, content \in FileContents, projectId \in ProjectIds \cup {NULL_ID} :
    /\ IF projectId # NULL_ID /\ getProject(projectId) = {}
       THEN /\ UNCHANGED <<files, nextFileId>>
       ELSE /\ nextFileId \in FileIds
            /\ files' = files \cup
                 {[id |-> nextFileId, path |-> path, content |-> content,
                   projectId |-> projectId]}
            /\ nextFileId' = nextFileId + 1
    /\ UNCHANGED <<users, projects, nextProjectId, deleting, deleted, cascaded>>

\* an update without its where clause
updateEveryFile(id, content) ==
  /\ files' = {[f EXCEPT !.content = content] : f \in files}
  /\ UNCHANGED <<users, projects, nextProjectId, nextFileId, deleting, deleted, cascaded>>

\* storage.ts:120-125
updateFileOf(id, content) ==
  /\ files' = {IF f.id = id THEN [f EXCEPT !.content = content] ELSE f : f \in files}
  /\ UNCHANGED <<users, projects, nextProjectId, nextFileId, deleting, deleted, cascaded>>

\* storage.ts:127-129, no row was returned
updateFileError(id) == IF getFile(id) = {} THEN FILE_NOT_FOUND ELSE NoDbError

\* storage.ts:120-131
updateFile == \E id \in FileIds, content \in FileContents : updateFileOf(id, content)

\* storage.ts:133-135
deleteFile ==
  \E id \in FileIds :
    /\ files' = files \ getFile(id)
    /\ UNCHANGED <<users, projects, nextProjectId, nextFileId, deleting, deleted, cascaded>>

EveryFile(id) == files
\* storage.ts:90, the rows `where(eq(files.projectId, id))` selects
FilesOfProject(id) == {f \in files : f.projectId = id}

Idle == [pc |-> "idle", removed |-> FALSE]

\* storage.ts:90, deleteProject's first statement.  The caller names an id
\* that has been handed out: it cannot know the id a later row will get
DeleteProjectFiles ==
  \E id \in ProjectIds :
    /\ id < nextProjectId
    /\ deleting[id] = Idle
    /\ Cardinality({i \in ProjectIds : deleting[i] # Idle}) < MaxDeleting
    /\ files' = files \ FilesOfProject(id)
    /\ deleting' = [deleting EXCEPT ![id] =
                      [pc |-> "filesDeleted", removed |-> FilesOfProject(id) # {}]]
    /\ UNCHANGED <<users, projects, nextProjectId, nextFileId, deleted, cascaded>>

\* storage.ts:91, deleteProject's second statement: the row goes unless a
\* file still references it (schema.ts:23), and then the call throws
DeleteProjectRow ==
  \E id \in ProjectIds :
    /\ deleting[id].pc = "filesDeleted"
    /\ IF getProjectFiles(id) # {}
       THEN UNCHANGED <<projects, deleted, cascaded>>
       ELSE /\ projects' = projects \ getProject(id)
            /\ deleted' = deleted \cup {id}
            /\ cascaded' = IF deleting[id].removed THEN cascaded \cup {id} ELSE cascaded
    /\ deleting' = [deleting EXCEPT ![id] = Idle]
    /\ UNCHANGED <<users, files, nextProjectId, nextFileId>>

InitDb ==
  /\ users = {}
  /\ projects = {}
  /\ files = {}
  /\ nextProjectId = 1
  /\ nextFileId = 1
  /\ deleting = [id \in ProjectIds |-> Idle]
  /\ deleted = {}
  /\ cascaded = {}

(***************************************************************************)
(* FileSystemManager.getFullPath, server/lib/fileSystem.ts:17-28.  A path  *)
(* is a sequence of segments and a segment a sequence of characters, so    *)
(* that String.startsWith compares what the code compares: characters.     *)
(***************************************************************************)
DOTDOT == <<".", ".">>
DOT == <<".">>

\* process.cwd(), and "./workspace" resolved against it (fileSystem.ts:17-18)
Cwd == << <<"h">> >>
workspaceRoot == Cwd \o << <<"w">> >>

SegmentNames == {DOTDOT, DOT, <<"a">>, <<"w">>, <<"w", "x">>, <<"h">>}

SeqsUpTo(S, n) == UNION {[1..k -> S] : k \in 0..n}

\* a relativePath argument: whether it starts with "/", and its segments
RelativePaths == [abs : BOOLEAN, segs : SeqsUpTo(SegmentNames, MaxSegments)]

\* path.normalize: "." is dropped, ".." drops the segment before it
RECURSIVE Normalize(_, _)
Normalize(acc, segs) ==
  IF segs = <<>> THEN acc
  ELSE LET seg == Head(segs) IN
       Normalize(IF seg = DOT THEN acc
                 ELSE IF seg = DOTDOT
                 THEN (IF acc = <<>> THEN acc ELSE SubSeq(acc, 1, Len(acc) - 1))
                 ELSE Append(acc, seg),
                 Tail(segs))

\* path.resolve(this.workspaceRoot, relativePath), fileSystem.ts:22
Resolve(rel) ==
  IF rel.abs THEN Normalize(<<>>, rel.segs) ELSE Normalize(workspaceRoot, rel.segs)

\* the string of an absolute path: "/" before every segment
RECURSIVE PathString(_)
PathString(segs) ==
  IF segs = <<>> THEN <<>> ELSE <<"/">> \o Head(segs) \o PathString(Tail(segs))

\* String.prototype.startsWith
StartsWith(str, prefix) ==
  Len(str) >= Len(prefix) /\ SubSeq(str, 1, Len(prefix)) = prefix

\* fileSystem.ts:24, `fullPath.startsWith(this.workspaceRoot)`
PassesCheck(fullPath) == StartsWith(PathString(fullPath), PathString(workspaceRoot))

OUTSIDE == "Path outside workspace not allowed"
NoError == "none"

\* fileSystem.ts:21-28: the full path, or the error thrown
getFullPath(rel) ==
  LET fullPath == Resolve(rel) IN
  IF ~PassesCheck(fullPath)
  THEN [error |-> OUTSIDE, fullPath |-> <<>>]
  ELSE [error |-> NoError, fullPath |-> fullPath]

\* the methods that start with `this.getFullPath(relativePath)`,
\* fileSystem.ts:124, 133, 145, 159, 200, 209
FileOperations ==
  {"readFile", "writeFile", "deleteFile", "listFiles", "createFolder", "fileExists"}

NotCalled == [error |-> "not called", fullPath |-> <<>>]

\* one call of a FileSystemManager method, up to the return of getFullPath
PathInputs ==
  /\ pathOp \in FileOperations
  /\ pathArg \in RelativePaths
  /\ pathResult = NotCalled

\* no call under way
IdlePath ==
  /\ pathOp = "readFile"
  /\ pathArg = [abs |-> FALSE, segs |-> <<>>]
  /\ pathResult = NotCalled

CallGetFullPath ==
  /\ pathResult = NotCalled
  /\ pathResult' = getFullPath(pathArg)
  /\ UNCHANGED <<pathOp, pathArg>>

(***************************************************************************)
(* The file system under the FileSystemManager, and the manager's methods, *)
(* server/lib/fileSystem.ts:123-216.  Each call is one step.               *)
(***************************************************************************)
RelPath(segs) == [abs |-> FALSE, segs |-> segs]

\* the relativePath arguments of the calls: "", "a", "d", "d/a", ".."
FsArgs ==
  { RelPath(<<>>), RelPath(<< <<"a">> >>), RelPath(<< <<"d">> >>),
    RelPath(<< <<"d">>, <<"a">> >>), RelPath(<<DOTDOT>>) }

\* the paths below process.cwd() that the calls reach
Prefixes(fullPath) == {SubSeq(fullPath, 1, k) : k \in (Len(Cwd) + 1)..Len(fullPath)}
DiskPaths ==
  UNION {Prefixes(getFullPath(rel).fullPath) :
           rel \in {r \in FsArgs : getFullPath(r).error = NoError}}
Under(fullPath) ==
  {q \in DiskPaths : Len(q) > Len(fullPath) /\ SubSeq(q, 1, Len(fullPath)) = fullPath}
Dirname(fullPath) == SubSeq(fullPath, 1, Len(fullPath) - 1)

\* a JavaScript string is a sequence of UTF-16 code units: a letter, a high
\* surrogate, a low surrogate, U+FFFD
Contents == { <<"A">>, <<"HI", "LO">>, <<"HI">> }
NoContent == <<>>

\* the "utf-8" encoder of fs.writeFile, fileSystem.ts:138: a surrogate pair
\* becomes one supplementary character, a surrogate on its own U+FFFD
EncodePerUnit(str) ==
  [i \in 1..Len(str) |-> IF str[i] \in {"HI", "LO"} THEN "FFFD" ELSE str[i]]
RECURSIVE Encode(_)
Encode(str) ==
  IF str = <<>> THEN <<>>
  ELSE IF Len(str) >= 2 /\ str[1] = "HI" /\ str[2] = "LO"
  THEN <<"SUPP">> \o Encode(SubSeq(str, 3, Len(str)))
  ELSE IF str[1] \in {"HI", "LO"} THEN <<"FFFD">> \o Encode(Tail(str))
  ELSE <<str[1]>> \o Encode(Tail(str))

\* the "utf-8" decoder of fs.readFile, fileSystem.ts:126
RECURSIVE Decode(_)
Decode(bytes) ==
  IF bytes = <<>> THEN <<>>
  ELSE IF bytes[1] = "SUPP" THEN <<"HI", "LO">> \o Decode(Tail(bytes))
  ELSE <<bytes[1]>> \o Decode(Tail(bytes))

Absent == [kind |-> "absent", bytes |-> <<>>]
Directory == [kind |-> "dir", bytes |-> <<>>]
RegularFile(bytes) == [kind |-> "file", bytes |-> bytes]

\* fs.mkdir(dir, { recursive: true }): fails on a file in the way
Mkdir(d, dir) ==
  IF \E q \in Prefixes(dir) : d[q].kind = "file"
  THEN [ok |-> FALSE, disk |-> d]
  ELSE [ok |-> TRUE,
        disk |-> [q \in DiskPaths |-> IF q \in Prefixes(dir) THEN Directory ELSE d[q]]]

READ_FAILED == "Failed to read file"
WRITE_FAILED == "Failed to write file"
DELETE_FAILED == "Failed to delete"
LIST_FAILED == "Failed to list files"
CREATE_FAILED == "Failed to create folder"

\* what a call leaves: the error thrown, the disk, the string returned by
\* readFile, the boolean returned by fileExists
FsResult(error, d, content, exists) ==
  [error |-> error, disk |-> d, content |-> content, exists |-> exists]
Thrown(error, d) == FsResult(error, d, NoContent, FALSE)
Returned(d) == FsResult(NoError, d, NoContent, FALSE)

\* fileSystem.ts:123-130
readFile(d, rel) ==
  LET p == getFullPath(rel) IN
  IF p.error # NoError THEN Thrown(p.error, d)
  ELSE IF d[p.fullPath].kind = "file"
  THEN FsResult(NoError, d, Decode(d[p.fullPath].bytes), FALSE)
  ELSE Thrown(READ_FAILED, d)

\* fileSystem.ts:132-142
writeFile(d, rel, content) ==
  LET p == getFullPath(rel) IN
  IF p.error # NoError THEN Thrown(p.error, d)
  ELSE LET made == Mkdir(d, Dirname(p.fullPath)) IN
       IF ~made.ok THEN Thrown(WRITE_FAILED, d)
       ELSE IF made.disk[p.fullPath].kind = "dir" THEN Thrown(WRITE_FAILED, made.disk)
       ELSE Returned([made.disk EXCEPT ![p.fullPath] = RegularFile(Encode(content))])

\* a delete that empties the workspace
fsDeleteEverything(d, rel) ==
  LET p == getFullPath(rel) IN
  IF p.error # NoError THEN Thrown(p.error, d)
  ELSE IF d[p.fullPath].kind = "absent" THEN Thrown(DELETE_FAILED, d)
  ELSE Returned([q \in DiskPaths |-> IF q = workspaceRoot THEN d[q] ELSE Absent])

\* fileSystem.ts:144-156
fsDeleteFile(d, rel) ==
  LET p == getFullPath(rel) IN
  IF p.error # NoError THEN Thrown(p.error, d)
  ELSE IF d[p.fullPath].kind = "absent" THEN Thrown(DELETE_FAILED, d)
  ELSE IF d[p.fullPath].kind = "dir"
  THEN Returned([q \in DiskPaths |->
                   IF q = p.fullPath \/ q \in Under(p.fullPath) THEN Absent ELSE d[q]])
  ELSE Returned([d EXCEPT ![p.fullPath] = Absent])

\* fileSystem.ts:158-197
listFiles(d, rel) ==
  LET p == getFullPath(rel) IN
  IF p.error # NoError THEN Thrown(p.error, d)
  ELSE IF d[p.fullPath].kind = "dir" THEN Returned(d)
  ELSE Thrown(LIST_FAILED, d)

\* fileSystem.ts:199-206
createFolder(d, rel) ==
  LET p == getFullPath(rel) IN
  IF p.error # NoError THEN Thrown(p.error, d)
  ELSE LET made == Mkdir(d, p.fullPath) IN
       IF made.ok THEN Returned(made.disk) ELSE Thrown(CREATE_FAILED, d)

\* fileSystem.ts:208-216
fileExists(d, rel) ==
  LET p == getFullPath(rel) IN
  IF p.error # NoError THEN Thrown(p.error, d)
  ELSE FsResult(NoError, d, NoContent, d[p.fullPath].kind # "absent")

NoCallYet ==
  [op |-> "none", path |-> RelPath(<<>>), error |-> NoError,
   content |-> NoContent, exists |-> FALSE]

\* the record of a call
Called(op, rel, r) ==
  [op |-> op, path |-> rel, error |-> r.error, content |-> r.content,
   exists |-> r.exists]

\* the path a call is about, when getFullPath lets it through
Targets(rel) == IF getFullPath(rel).error = NoError THEN {getFullPath(rel).fullPath} ELSE {}

ReadFileCall ==
  \E rel \in FsArgs :
    LET r == readFile(disk, rel) IN
    /\ fsLast' = Called("readFile", rel, r)
    /\ UNCHANGED <<disk, written, uprooted>>

WriteFileCall ==
  \E rel \in FsArgs, content \in Contents :
    LET r == writeFile(disk, rel, content) IN
    /\ disk' = r.disk
    /\ fsLast' = Called("writeFile", rel, r)
    /\ written' = [q \in DiskPaths |->
                     IF q \in Targets(rel)
                     THEN (IF r.error = NoError THEN content ELSE NoContent)
                     ELSE written[q]]
    /\ uprooted' = [q \in DiskPaths |-> q \notin Targets(rel) /\ uprooted[q]]

DeleteFileCall ==
  \E rel \in FsArgs :
    LET r == fsDeleteFile(disk, rel) IN
    /\ disk' = r.disk
    /\ fsLast' = Called("deleteFile", rel, r)
    /\ written' = [q \in DiskPaths |-> IF q \in Targets(rel) THEN NoContent ELSE written[q]]
    /\ uprooted' = [q \in DiskPaths |->
                      /\ q \notin Targets(rel)
                      /\ \/ uprooted[q]
                         \/ /\ r.error = NoError
                            /\ written[q] # NoContent
                            /\ \E t \in Targets(rel) : q \in Under(t)]

ListFilesCall ==
  \E rel \in FsArgs :
    LET r == listFiles(disk, rel) IN
    /\ fsLast' = Called("listFiles", rel, r)
    /\ UNCHANGED <<disk, written, uprooted>>

CreateFolderCall ==
  \E rel \in FsArgs :
    LET r == createFolder(disk, rel) IN
    /\ disk' = r.disk
    /\ fsLast' = Called("createFolder", rel, r)
    /\ UNCHANGED <<written, uprooted>>

FileExistsCall ==
  \E rel \in FsArgs :
    LET r == fileExists(disk, rel) IN
    /\ fsLast' = Called("fileExists", rel, r)
    /\ UNCHANGED <<disk, written, uprooted>>

\* after ensureWorkspace (fileSystem.ts:30-38): the workspace root exists
InitFs ==
  /\ disk = [q \in DiskPaths |-> IF q = workspaceRoot THEN Directory ELSE Absent]
  /\ fsLast = NoCallYet
  /\ written = [q \in DiskPaths |-> NoContent]
  /\ uprooted = [q \in DiskPaths |-> FALSE]

(***************************************************************************)
(* Two runs of POST /api/llm side by side.  One user sends the same        *)
(* requests at the same times to both; the other user's requests reach     *)
(* only the second run.  Two histories that agree on the first user's      *)
(* requests both agree with the run that has nothing else in it.           *)
(***************************************************************************)
Runs == {1, 2}
SubjectUser == "u1"
OtherUser == "u2"

NoPair == [one |-> PENDING, two |-> PENDING, differ |-> FALSE]

PairRequest ==
  \E auth \in BOOLEAN, body \in LimiterBodies :
    LET one == LlmOutcome(auth, SubjectUser, body, niCounts[1], now)
        two == LlmOutcome(auth, SubjectUser, body, niCounts[2], now) IN
    /\ niCounts' = [r \in Runs |-> IF r = 1 THEN one.counts ELSE two.counts]
    /\ niLast' = [one |-> one.status, two |-> two.status,
                  differ |-> niCounts[1][OtherUser] # niCounts[2][OtherUser]]
    /\ UNCHANGED llmVars

OtherRequest ==
  \E body \in LimiterBodies :
    /\ niCounts' = [niCounts EXCEPT
                      ![2] = LlmOutcome(TRUE, OtherUser, body, niCounts[2], now).counts]
    /\ UNCHANGED <<niLast, llmVars>>

InitNi ==
  /\ niCounts = [r \in Runs |-> [u \in Users |-> NoEntry]]
  /\ niLast = NoPair

(***************************************************************************)
(* The other protected endpoints: routes.ts:87-166 and the Git routes,     *)
(* server/lib/openai.ts:350-546.  A handler is one step; its trace lists   *)
(* what it touches, in the order of the code.                              *)
(***************************************************************************)
\* fileOperationSchema, shared/schema.ts:56-60
FileOperationNames == {"read", "write", "delete", "list"}
fileOperationSchema(body) ==
  /\ body.path # RelPath(<<>>)
  /\ body.operation \in FileOperationNames

RequestPaths == {RelPath(<<>>), RelPath(<< <<"a">> >>), RelPath(<<DOTDOT>>)}
\* NoContent: the field is absent or ""
FileBodies ==
  [path : RequestPaths, content : {NoContent, <<"A">>},
   operation : FileOperationNames \cup {"rename"}]

\* failed: a call of the handler to the file system failed
ApiResult(status, trace, d) ==
  [status |-> status, trace |-> trace, disk |-> d, failed |-> FALSE]
\* the manager threw for another reason than its own path check
DownstreamFailed(r) == r.error \notin {NoError, OUTSIDE}
\* a handler that answers 200 whatever the manager did
AfterCallAlwaysOk(trace, r) ==
  [ApiResult(200, trace, r.disk) EXCEPT !.failed = DownstreamFailed(r)]
\* res.json after the manager's call, or the catch's 500
AfterCall(trace, r) ==
  [ApiResult(IF r.error = NoError THEN 200 ELSE 500, trace, r.disk)
     EXCEPT !.failed = DownstreamFailed(r)]

\* routes.ts:87-131 with the authentication check after the switch
FilesOutcomeLateAuth(auth, body, d) ==
  IF ~fileOperationSchema(body) THEN ApiResult(400, <<"body">>, d)
  ELSE IF body.operation = "delete"
  THEN (IF auth THEN AfterCall(<<"body", "fs", "auth">>, fsDeleteFile(d, body.path))
        ELSE ApiResult(401, <<"body", "fs", "auth">>, fsDeleteFile(d, body.path).disk))
  ELSE ApiResult(IF auth THEN 200 ELSE 401, <<"body", "auth">>, d)

\* POST /api/files writing whatever content it is given
FilesOutcomeAnyContent(auth, body, d) ==
  IF ~auth THEN ApiResult(401, <<"auth">>, d)
  ELSE IF ~fileOperationSchema(body) THEN ApiResult(400, <<"auth", "body">>, d)
  ELSE CASE body.operation = "read" ->
              AfterCall(<<"auth", "body", "fs">>, readFile(d, body.path))
         [] body.operation = "write" ->
              AfterCall(<<"auth", "body", "fs">>, writeFile(d, body.path, body.content))
         [] body.operation = "delete" ->
              AfterCall(<<"auth", "body", "fs">>, fsDeleteFile(d, body.path))
         [] body.operation = "list" ->
              AfterCall(<<"auth", "body", "fs">>, listFiles(d, body.path))

\* routes.ts:87-131, POST /api/files
FilesOutcome(auth, body, d) ==
  IF ~auth THEN ApiResult(401, <<"auth">>, d)
  ELSE IF ~fileOperationSchema(body) THEN ApiResult(400, <<"auth", "body">>, d)
  ELSE CASE body.operation = "read" ->
              AfterCall(<<"auth", "body", "fs">>, readFile(d, body.path))
         [] body.operation = "write" ->
              IF body.content = NoContent THEN ApiResult(400, <<"auth", "body">>, d)
              ELSE AfterCall(<<"auth", "body", "fs">>, writeFile(d, body.path, body.content))
         [] body.operation = "delete" ->
              AfterCall(<<"auth", "body", "fs">>, fsDeleteFile(d, body.path))
         [] body.operation = "list" ->
              AfterCall(<<"auth", "body", "fs">>, listFiles(d, body.path))

\* routes.ts:134-146, GET /api/files/tree
TreeOutcome(auth, d) ==
  IF ~auth THEN ApiResult(401, <<"auth">>, d)
  ELSE AfterCall(<<"auth", "fs">>, listFiles(d, RelPath(<<>>)))

\* routes.ts:149-166, POST /api/files/folder
FolderOutcome(auth, body, d) ==
  IF ~auth THEN ApiResult(401, <<"auth">>, d)
  ELSE IF body.path = RelPath(<<>>) THEN ApiResult(400, <<"auth", "body">>, d)
  ELSE AfterCall(<<"auth", "body", "fs">>, createFolder(d, body.path))

\* gitCommitRequestSchema, message: z.string().min(1).max(500)
MIN_MESSAGE == 1
MAX_MESSAGE == 500

\* what a request to a Git route carries: files is absent, [] or a list of
\* paths; message is the length of the commit message; branchName and path
\* are names or ""
GoodGitRequest == [files |-> "some", message |-> MIN_MESSAGE, branchName |-> "dev", path |-> "a.ts"]
GitRequests(input) ==
  {GoodGitRequest} \cup
  CASE input = "files" ->
         {[GoodGitRequest EXCEPT !.files = "absent"], [GoodGitRequest EXCEPT !.files = "none"]}
    [] input = "message" ->
         {[GoodGitRequest EXCEPT !.message = 0],
          [GoodGitRequest EXCEPT !.message = MAX_MESSAGE + 1]}
    [] input = "branchName" -> {[GoodGitRequest EXCEPT !.branchName = ""]}
    [] input = "path" -> {[GoodGitRequest EXCEPT !.path = ""]}
    [] OTHER -> {}

gitStageRequestSchema(request) == request.files \in {"none", "some"}
gitCommitRequestSchema(request) ==
  request.message >= MIN_MESSAGE /\ request.message <= MAX_MESSAGE

\* the Git routes: the GitManager method called, the part of the request read
\* before the call, and the check of that part
GitRoutes ==
  { "GET /api/git/status", "GET /api/git/branches", "POST /api/git/stage",
    "POST /api/git/unstage", "POST /api/git/commit", "POST /api/git/branch/switch",
    "POST /api/git/branch/create", "POST /api/git/pull", "POST /api/git/push",
    "GET /api/git/diff", "GET /api/git/history" }

GitMethod(route) ==
  CASE route = "GET /api/git/status" -> "getStatus"
    [] route = "GET /api/git/branches" -> "getBranches"
    [] route = "POST /api/git/stage" -> "stageFiles"
    [] route = "POST /api/git/unstage" -> "unstageFiles"
    [] route = "POST /api/git/commit" -> "commit"
    [] route = "POST /api/git/branch/switch" -> "switchBranch"
    [] route = "POST /api/git/branch/create" -> "createBranch"
    [] route = "POST /api/git/pull" -> "pull"
    [] route = "POST /api/git/push" -> "push"
    [] route = "GET /api/git/diff" -> "getFileDiff"
    [] route = "GET /api/git/history" -> "getCommitHistory"

GitInput(route) ==
  CASE route \in {"POST /api/git/stage", "POST /api/git/unstage", "POST /api/git/commit",
                  "POST /api/git/branch/switch", "POST /api/git/branch/create"} -> <<"body">>
    [] route \in {"GET /api/git/diff", "GET /api/git/history"} -> <<"params">>
    [] OTHER -> <<>>

GitInputValid(route, request) ==
  CASE route \in {"POST /api/git/stage", "POST /api/git/unstage"} ->
         gitStageRequestSchema(request)
    [] route = "POST /api/git/commit" -> gitCommitRequestSchema(request)
    [] route \in {"POST /api/git/branch/switch", "POST /api/git/branch/create"} ->
         request.branchName # ""
    [] route = "GET /api/git/diff" -> request.path # ""
    [] OTHER -> TRUE

\* git.ts:17-43: every method of the GitManager starts with it; whether the
\* git commands succeed is the environment's choice
initializeRepository(r, gitOk) == [isRepo |-> r.isRepo \/ gitOk]

\* a GitManager method: git.ts:188-203 and the like
GitManagerCall(method, request, r, gitOk) ==
  [ok |-> gitOk /\ ~(method \in {"stageFiles", "unstageFiles"} /\ request.files = "none"),
   repo |-> initializeRepository(r, gitOk)]

GitResult(status, trace, r) == [status |-> status, trace |-> trace, repo |-> r]

\* a Git route that calls the GitManager before asking for the session
GitOutcomeLateAuth(route, auth, request, r, gitOk) ==
  LET g == GitManagerCall(GitMethod(route), request, r, gitOk) IN
  GitResult(IF ~auth THEN 401 ELSE IF g.ok THEN 200 ELSE 500, <<"git", "auth">>, g.repo)

\* server/lib/openai.ts:350-546
GitOutcome(route, auth, request, r, gitOk) ==
  IF ~auth THEN GitResult(401, <<"auth">>, r)
  ELSE IF ~GitInputValid(route, request)
  THEN GitResult(400, <<"auth">> \o GitInput(route), r)
  ELSE LET g == GitManagerCall(GitMethod(route), request, r, gitOk) IN
       GitResult(IF g.ok THEN 200 ELSE 500,
                 <<"auth">> \o GitInput(route) \o <<"git">>, g.repo)

NoReply ==
  [endpoint |-> "none", auth |-> FALSE, status |-> PENDING, trace |-> <<>>,
   touched |-> FALSE, failed |-> "none"]

\* the record of a request; touched: the step changed the rate limiter's
\* map, the disk or the repository; failed: the downstream call made for
\* the request that has failed by the time of the answer
Replied(endpoint, auth, status, trace) ==
  [endpoint |-> endpoint, auth |-> auth, status |-> status, trace |-> trace,
   touched |-> <<llmRequestCounts', disk', repo'>> # <<llmRequestCounts, disk, repo>>,
   failed |-> "none"]
Failing(record, failed) == [record EXCEPT !.failed = failed]

\* whether the handler got as far as the named part
Reached(trace, part) == \E i \in 1..Len(trace) : trace[i] = part

\* git.ts:60-72: getStatus asks for ahead/behind in a try of its own and
\* goes on when that fails; every other git command that fails makes the
\* method throw
GitProbes(route) == IF route = "GET /api/git/status" THEN BOOLEAN ELSE {TRUE}
GitDownstreamFailed(method, gitOk, probeOk) ==
  IF ~gitOk THEN "git"
  ELSE IF method = "getStatus" /\ ~probeOk THEN "git ahead/behind"
  ELSE "none"

LlmEndpoint ==
  \E auth \in BOOLEAN, body \in LimiterBodies :
    /\ \A u \in Users : awaiting[u] = 0
    /\ HandleLlm(auth, SubjectUser, body)
    /\ UNCHANGED <<disk, repo>>
    /\ reply' = Replied("POST /api/llm", auth, last'.status, last'.trace)

FilesEndpoint ==
  \E auth \in BOOLEAN, body \in FileBodies :
    LET out == FilesOutcome(auth, body, disk) IN
    /\ disk' = out.disk
    /\ UNCHANGED <<llmVars, repo>>
    /\ reply' = Failing(Replied("POST /api/files", auth, out.status, out.trace),
                        IF out.failed THEN "fs" ELSE "none")

TreeEndpoint ==
  \E auth \in BOOLEAN :
    LET out == TreeOutcome(auth, disk) IN
    /\ disk' = out.disk
    /\ UNCHANGED <<llmVars, repo>>
    /\ reply' = Failing(Replied("GET /api/files/tree", auth, out.status, out.trace),
                        IF out.failed THEN "fs" ELSE "none")

FolderEndpoint ==
  \E auth \in BOOLEAN, body \in [path : RequestPaths] :
    LET out == FolderOutcome(auth, body, disk) IN
    /\ disk' = out.disk
    /\ UNCHANGED <<llmVars, repo>>
    /\ reply' = Failing(Replied("POST /api/files/folder", auth, out.status, out.trace),
                        IF out.failed THEN "fs" ELSE "none")

GitEndpoint(route, input) ==
  \E auth \in BOOLEAN, request \in GitRequests(input), gitOk \in BOOLEAN,
     probeOk \in GitProbes(route) :
    LET out == GitOutcome(route, auth, request, repo, gitOk) IN
    /\ repo' = out.repo
    /\ UNCHANGED <<llmVars, disk>>
    /\ reply' = Failing(Replied(route, auth, out.status, out.trace),
                        IF Reached(out.trace, "git")
                        THEN GitDownstreamFailed(GitMethod(route), gitOk, probeOk)
                        ELSE "none")

GitStatusEndpoint == GitEndpoint("GET /api/git/status", "none")
GitBranchesEndpoint == GitEndpoint("GET /api/git/branches", "none")
GitStageEndpoint == GitEndpoint("POST /api/git/stage", "files")
GitUnstageEndpoint == GitEndpoint("POST /api/git/unstage", "files")
GitCommitEndpoint == GitEndpoint("POST /api/git/commit", "message")
GitSwitchEndpoint == GitEndpoint("POST /api/git/branch/switch", "branchName")
GitCreateEndpoint == GitEndpoint("POST /api/git/branch/create", "branchName")
GitPullEndpoint == GitEndpoint("POST /api/git/pull", "none")
GitPushEndpoint == GitEndpoint("POST /api/git/push", "none")
GitDiffEndpoint == GitEndpoint("GET /api/git/diff", "path")
GitHistoryEndpoint == GitEndpoint("GET /api/git/history", "none")

\* the workspace is not a repository until a GitManager method has run
InitApi ==
  /\ repo = [isRepo |-> FALSE]
  /\ reply = NoReply

(***************************************************************************)
(* POST /api/files with paths below the top of the workspace               *)
(***************************************************************************)
\* the bodies: every path of FsArgs and ".", with and without content, every
\* operation and one that is none
DeepFileBodies ==
  [path : FsArgs \cup {RelPath(<<DOT>>)}, content : {NoContent, <<"A">>},
   operation : FileOperationNames \cup {"rename"}]

NoFilesRequest ==
  [auth |-> FALSE, body |-> [path |-> RelPath(<<>>), content |-> NoContent, operation |-> "none"],
   status |-> PENDING, error |-> "", changed |-> {}, created |-> {}]

\* routes.ts:89-109, the error field of the answers sent before any call
\* to the file manager; "" where the handler goes on to the call
FilesError(auth, body) ==
  IF ~auth THEN "Authentication required"
  ELSE IF ~fileOperationSchema(body) THEN "Invalid request"
  ELSE IF body.operation = "write" /\ body.content = NoContent
  THEN "Content required for write operation"
  ELSE ""

\* routes.ts:87-131; changed: the paths whose entry on disk the request
\* changed, created: those of them that were absent and are directories now
FilesRequest ==
  \E auth \in BOOLEAN, body \in DeepFileBodies :
    LET out == FilesOutcome(auth, body, disk) IN
    /\ disk' = out.disk
    /\ filesLast' =
         [auth |-> auth, body |-> body, status |-> out.status,
          error |-> FilesError(auth, body),
          changed |-> {q \in DiskPaths : out.disk[q] # disk[q]},
          created |-> {q \in DiskPaths : disk[q] = Absent /\ out.disk[q] = Directory}]
    /\ UNCHANGED <<llmVars, dbVars, pathVars, niVars, apiVars, fsLast, written, uprooted,
                   dbLast, passLog, gitVars>>

\* the calls whose outcome is recorded; turn tells one call from the next
NoDbCall == [op |-> "none", id |-> NULL_ID, name |-> "", content |-> "", error |-> NoDbError,
             turn |-> FALSE]

CreateUserCall ==
  \E username \in Usernames :
    /\ createUserOf(username)
    /\ dbLast' = [op |-> "createUser", id |-> NULL_ID, name |-> username, content |-> "",
                  error |-> createUserError(username), turn |-> ~dbLast.turn]

UpdateFileCall ==
  \E id \in FileIds, content \in FileContents :
    /\ updateFileOf(id, content)
    /\ dbLast' = [op |-> "updateFile", id |-> id, name |-> "", content |-> content,
                  error |-> updateFileError(id), turn |-> ~dbLast.turn]

\* one more request passed at time t: the log's last entry is for t, or a new one is
Logged(log, t) ==
  IF log # <<>> /\ log[Len(log)].at = t
  THEN [log EXCEPT ![Len(log)].n = @ + 1]
  ELSE Append(log, [at |-> t, n |-> 1])

\* the user whose requests are followed through time
LoggedUsers == {"u1"}

\* routes.ts:59-66: a request passes checkRateLimit exactly when the call
\* changes the user's entry (a new window, or count + 1)
LlmRequestLogged ==
  /\ \E userId \in LoggedUsers, body \in LimiterBodies :
       /\ \A u \in Users : awaiting[u] = 0
       /\ HandleLlm(TRUE, userId, body)
  /\ passLog' = [u \in Users |->
                   IF llmRequestCounts'[u] # llmRequestCounts[u]
                   THEN Logged(passLog[u], now)
                   ELSE passLog[u]]

(***************************************************************************)
(* GitManager, server/lib/git.ts, over a workspace.  git holds what the    *)
(* git commands of the manager read and change: whether the workspace is a *)
(* repository, how often it was initialised and configured, the messages   *)
(* of the commits, the staged paths (index), the paths changed but not     *)
(* staged (work), the branch HEAD names, the branches that exist, and      *)
(* whether the workspace holds a .gitignore file.                          *)
(***************************************************************************)
GitPaths == {"a.ts", "b.ts"}
BranchNames == {"main", "dev"}
\* the branch `git init` starts on is the installation's init.defaultBranch
InitialBranchNames == {"master", "main"}
\* the choice matters to `git init` only
InitialBranches(g) == IF g.isRepo THEN {g.head} ELSE InitialBranchNames
INITIAL_COMMIT == <<"Initial commit">>
\* commit messages as sequences of characters: "", " ", "f "
CommitMessages == {<<>>, <<" ">>, <<"f", " ">>}

\* String.prototype.trim
RECURSIVE TrimStart(_)
TrimStart(m) == IF m # <<>> /\ Head(m) = " " THEN TrimStart(Tail(m)) ELSE m
RECURSIVE TrimEnd(_)
TrimEnd(m) ==
  IF m # <<>> /\ m[Len(m)] = " " THEN TrimEnd(SubSeq(m, 1, Len(m) - 1)) ELSE m
Trim(m) == TrimEnd(TrimStart(m))

NoRepository ==
  [isRepo |-> FALSE, inits |-> 0, configs |-> 0, log |-> <<>>, index |-> {}, work |-> {},
   head |-> "", branches |-> {}, ignore |-> FALSE]

\* a method's outcome: the workspace after it, and the parts of the message
\* of the error it threw, outermost first; <<>> when it returned
GitReturned(g) == [git |-> g, error |-> <<>>]
GitThrown(g, message) == [git |-> g, error |-> <<message>>]
\* catch (error) { throw new Error(`<prefix>: ${error}`) }
Rethrown(prefix, r) == IF r.error = <<>> THEN r ELSE [r EXCEPT !.error = <<prefix>> \o @]

INIT_FAILED == "Git initialization failed"
NO_FILES_TO_STAGE == "No files specified for staging"
NO_FILES_TO_UNSTAGE == "No files specified for unstaging"
MESSAGE_REQUIRED == "Commit message is required"
NOTHING_STAGED == "No staged changes to commit"
GIT_FAILED == "git command failed"

\* an initializeRepository that does not ask whether there is a repository
gitInitializeAgain(g, initial) ==
  LET g1 == [g EXCEPT !.isRepo = TRUE, !.inits = IF @ < 2 THEN @ + 1 ELSE @,
                      !.configs = IF @ < 4 THEN @ + 2 ELSE @,
                      !.head = IF g.isRepo THEN @ ELSE initial] IN
  IF g.log # <<>> THEN GitReturned(g1)
  ELSE IF ~g.ignore THEN Rethrown(INIT_FAILED, GitThrown(g1, GIT_FAILED))
  ELSE GitReturned([g1 EXCEPT !.log = <<INITIAL_COMMIT>>, !.branches = {g1.head}])

\* git.ts:17-43.  A fresh repository has no commit, so the log probe throws;
\* `git add .gitignore` fails when the workspace has no such file, and the
\* method throws with the repository initialised and without a commit
gitInitializeRepository(g, initial) ==
  IF g.isRepo THEN GitReturned(g)
  ELSE LET g1 == [g EXCEPT !.isRepo = TRUE, !.inits = @ + 1, !.configs = @ + 2,
                           !.head = initial] IN
       IF ~g.ignore THEN Rethrown(INIT_FAILED, GitThrown(g1, GIT_FAILED))
       ELSE GitReturned([g1 EXCEPT !.log = <<INITIAL_COMMIT>>, !.branches = {initial}])

\* git.ts:149-183: the local branches and the current one; 'main' when git
\* lists no branch
getBranches(g, initial) ==
  LET r == Rethrown("Failed to get branches", gitInitializeRepository(g, initial)) IN
  [git |-> r.git, error |-> r.error,
   names |-> IF r.error # <<>> THEN {}
             ELSE IF r.git.branches = {} THEN {"main"} ELSE r.git.branches,
   current |-> IF r.error # <<>> THEN ""
               ELSE IF r.git.branches = {} THEN "main" ELSE r.git.head]

\* a stageFiles that hands an empty list to git add
stageFilesUnchecked(g, filePaths, initial) ==
  LET i == gitInitializeRepository(g, initial) IN
  Rethrown("Failed to stage files",
    IF i.error # <<>> THEN i
    ELSE GitReturned([i.git EXCEPT !.index = @ \cup (filePaths \cap i.git.work),
                                   !.work = @ \ filePaths]))

\* git.ts:188-203
stageFiles(g, filePaths, initial) ==
  LET i == gitInitializeRepository(g, initial) IN
  Rethrown("Failed to stage files",
    IF i.error # <<>> THEN i
    ELSE IF filePaths = {} THEN GitThrown(i.git, NO_FILES_TO_STAGE)
    ELSE GitReturned([i.git EXCEPT !.index = @ \cup (filePaths \cap i.git.work),
                                   !.work = @ \ filePaths]))

\* git.ts:207-221; `git reset HEAD <paths>` fails while there is no commit
unstageFiles(g, filePaths, initial) ==
  LET i == gitInitializeRepository(g, initial) IN
  Rethrown("Failed to unstage files",
    IF i.error # <<>> THEN i
    ELSE IF filePaths = {} THEN GitThrown(i.git, NO_FILES_TO_UNSTAGE)
    ELSE IF i.git.log = <<>> THEN GitThrown(i.git, GIT_FAILED)
    ELSE GitReturned([i.git EXCEPT !.index = @ \ filePaths,
                                   !.work = @ \cup (filePaths \cap i.git.index)]))

\* a commit that does not look at the index
commitAnything(g, message, initial) ==
  LET i == gitInitializeRepository(g, initial) IN
  Rethrown("Failed to commit",
    IF i.error # <<>> THEN i
    ELSE IF Trim(message) = <<>> THEN GitThrown(i.git, MESSAGE_REQUIRED)
    ELSE GitReturned([i.git EXCEPT !.log = Append(@, message), !.index = {},
                                   !.branches = @ \cup {i.git.head}]))

\* git.ts:226-246
commit(g, message, initial) ==
  LET i == gitInitializeRepository(g, initial) IN
  Rethrown("Failed to commit",
    IF i.error # <<>> THEN i
    ELSE IF Trim(message) = <<>> THEN GitThrown(i.git, MESSAGE_REQUIRED)
    ELSE IF i.git.index = {} THEN GitThrown(i.git, NOTHING_STAGED)
    ELSE GitReturned([i.git EXCEPT !.log = Append(@, message), !.index = {},
                                   !.branches = @ \cup {i.git.head}]))

\* a switchBranch that always creates
switchBranchCreating(g, branchName, initial) ==
  LET i == gitInitializeRepository(g, initial) IN
  Rethrown("Failed to switch branch",
    IF i.error # <<>> THEN i
    ELSE GitReturned([i.git EXCEPT !.head = branchName, !.branches = {branchName}]))

\* git.ts:251-271.  `git checkout -b` on a repository without a commit moves
\* HEAD to the new name and creates no branch; `git checkout <name>` fails
\* for a name that is no branch
switchBranch(g, branchName, initial) ==
  LET i == gitInitializeRepository(g, initial) IN
  Rethrown("Failed to switch branch",
    IF i.error # <<>> THEN i
    ELSE LET branches == getBranches(i.git, initial) IN
         IF branchName \notin branches.names
         THEN IF i.git.log = <<>> /\ i.git.head = branchName
              THEN GitThrown(i.git, GIT_FAILED)
              ELSE GitReturned([i.git EXCEPT !.head = branchName,
                                  !.branches = IF i.git.log = <<>> THEN @
                                               ELSE @ \cup {branchName}])
         ELSE IF branchName \in i.git.branches
         THEN GitReturned([i.git EXCEPT !.head = branchName])
         ELSE GitThrown(i.git, GIT_FAILED))

\* the calls and requests recorded; present: the body has a files array
NoGitCall ==
  [op |-> "none", auth |-> FALSE, present |-> FALSE, files |-> {}, message |-> <<>>,
   branch |-> "", status |-> PENDING, error |-> <<>>]
GitCalled(op, r) == [NoGitCall EXCEPT !.op = op, !.auth = TRUE, !.error = r.error]

\* the user changes a file of the workspace
EditFile ==
  \E p \in GitPaths :
    /\ git' = [git EXCEPT !.work = @ \cup {p}]
    /\ gitLast' = NoGitCall
    /\ UNCHANGED statusLast

\* the user writes .gitignore
WriteGitignore ==
  /\ git' = [git EXCEPT !.ignore = TRUE]
  /\ gitLast' = NoGitCall
  /\ UNCHANGED statusLast

GetBranchesCall ==
  \E initial \in InitialBranches(git) :
    LET r == getBranches(git, initial) IN
    /\ git' = r.git
    /\ gitLast' = [GitCalled("getBranches", r) EXCEPT !.branch = r.current]
    /\ UNCHANGED statusLast

\* the bodies of the requests to stage and unstage: no files array, [],
\* or an array of paths
GitFileBodies ==
  {[present |-> FALSE, files |-> {}]} \cup {[present |-> TRUE, files |-> F] : F \in SUBSET GitPaths}
FilesField(body) ==
  [files |-> IF ~body.present THEN "absent" ELSE IF body.files = {} THEN "none" ELSE "some"]

\* server/lib/openai.ts:380-419, POST /api/git/stage and /api/git/unstage
GitFilesRequest(op, auth, body, g, initial) ==
  IF ~auth THEN [status |-> 401, git |-> g, error |-> <<"Authentication required">>]
  ELSE IF ~gitStageRequestSchema(FilesField(body))
  THEN [status |-> 400, git |-> g, error |-> <<"Invalid request">>]
  ELSE LET r == IF op = "stage" THEN stageFiles(g, body.files, initial)
                ELSE unstageFiles(g, body.files, initial) IN
       [status |-> IF r.error = <<>> THEN 200 ELSE 500, git |-> r.git, error |-> r.error]

GitStageRequest ==
  \E auth \in BOOLEAN, body \in GitFileBodies, initial \in InitialBranches(git) :
    LET r == GitFilesRequest("stage", auth, body, git, initial) IN
    /\ git' = r.git
    /\ gitLast' = [NoGitCall EXCEPT !.op = "stage", !.auth = auth,
                                    !.present = body.present, !.files = body.files,
                                    !.status = r.status, !.error = r.error]
    /\ UNCHANGED statusLast

GitUnstageRequest ==
  \E auth \in BOOLEAN, body \in GitFileBodies, initial \in InitialBranches(git) :
    LET r == GitFilesRequest("unstage", auth, body, git, initial) IN
    /\ git' = r.git
    /\ gitLast' = [NoGitCall EXCEPT !.op = "unstage", !.auth = auth,
                                    !.present = body.present, !.files = body.files,
                                    !.status = r.status, !.error = r.error]
    /\ UNCHANGED statusLast

CommitCall ==
  \E message \in CommitMessages, initial \in InitialBranches(git) :
    LET r == commit(git, message, initial) IN
    /\ Len(git.log) < MaxCommits
    /\ git' = r.git
    /\ gitLast' = [GitCalled("commit", r) EXCEPT !.message = message]
    /\ UNCHANGED statusLast

SwitchBranchCall ==
  \E branchName \in BranchNames, initial \in InitialBranches(git) :
    LET r == switchBranch(git, branchName, initial) IN
    /\ git' = r.git
    /\ gitLast' = [GitCalled("switchBranch", r) EXCEPT !.branch = branchName]
    /\ UNCHANGED statusLast

InitGit ==
  /\ git = NoRepository
  /\ gitLast = NoGitCall

(***************************************************************************)
(* GitManager.getStatus, git.ts:75-139: what it makes of the result of     *)
(* git status.  The result lists paths by the two letters git prints for   *)
(* each: index and working tree.                                           *)
(***************************************************************************)
StatusPaths == <<"a.ts", "b.ts", "c.ts">>
\* unchanged; changed in the working tree, in the index, in both; added to
\* the index; deleted in the working tree, in the index; untracked; renamed
PorcelainCodes == {"  ", " M", "M ", "MM", "A ", " D", "D ", "??", "R "}

Listed(codes, letters) ==
  SelectSeq(StatusPaths, LAMBDA path : codes[path] \in letters)

\* the StatusResult for the letters of each path, git.ts:54
StatusResult(codes) ==
  [modified |-> Listed(codes, {" M", "M ", "MM"}),
   staged |-> Listed(codes, {"M ", "MM", "A ", "D "}),
   deleted |-> Listed(codes, {" D", "D "}),
   not_added |-> Listed(codes, {"??"}),
   renamed |-> Listed(codes, {"R "})]

Entries(paths, status, staged) ==
  [i \in 1..Len(paths) |-> [path |-> paths[i], status |-> status, staged |-> staged]]

InSeq(x, seq) == \E i \in 1..Len(seq) : seq[i] = x

\* git.ts:97-103: files.find(f => f.path === file) is the first entry of
\* the path, and it is marked staged
MarkStaged(entries, staged) ==
  [i \in 1..Len(entries) |->
     IF InSeq(entries[i].path, staged)
        /\ \A j \in 1..(i - 1) : entries[j].path # entries[i].path
     THEN [entries[i] EXCEPT !.staged = TRUE]
     ELSE entries[i]]

\* git.ts:75-128
getStatusFiles(status) ==
  MarkStaged(Entries(status.modified, "modified", FALSE)
               \o Entries(status.staged, "added", TRUE),
             status.staged)
    \o Entries(status.deleted, "deleted", FALSE)
    \o Entries(status.not_added, "untracked", FALSE)
    \o Entries(status.renamed, "renamed", TRUE)

\* git.ts:130-138
getStatus(status) ==
  LET entries == getStatusFiles(status) IN
  [files |-> entries,
   staged |-> Cardinality({i \in 1..Len(entries) : entries[i].staged}),
   modified |-> Len(status.modified),
   untracked |-> Len(status.not_added)]

StatusPathSet == {StatusPaths[i] : i \in 1..Len(StatusPaths)}
Unchanged == [path \in StatusPathSet |-> "  "]
NoStatus == [called |-> FALSE, status |-> StatusResult(Unchanged),
             result |-> getStatus(StatusResult(Unchanged))]

GetStatusCall ==
  \E codes \in [StatusPathSet -> PorcelainCodes] :
    /\ statusLast' = [called |-> TRUE, status |-> StatusResult(codes),
                      result |-> getStatus(StatusResult(codes))]
    /\ UNCHANGED <<git, gitLast>>

InitMore ==
  /\ filesLast = NoFilesRequest
  /\ dbLast = NoDbCall
  /\ passLog = [u \in Users |-> <<>>]
  /\ InitGit
  /\ statusLast = NoStatus

\* what the actions of one part of the server leave alone
LlmOnly == UNCHANGED <<moreVars, dbVars, pathVars, fsVars, niVars, apiVars>>
DbOnly == UNCHANGED <<moreVars, llmVars, pathVars, fsVars, niVars, apiVars>>
PathOnly == UNCHANGED <<moreVars, llmVars, dbVars, fsVars, niVars, apiVars>>
FsOnly == UNCHANGED <<moreVars, llmVars, dbVars, pathVars, niVars, apiVars>>
NiOnly == UNCHANGED <<moreVars, dbVars, pathVars, fsVars, apiVars>>
ApiOnly == UNCHANGED <<moreVars, dbVars, pathVars, niVars, fsLast, written, uprooted>>

Init == InitLlm /\ InitDb /\ IdlePath /\ InitFs /\ InitNi /\ InitApi /\ InitMore

Next ==
  \/ LlmRequest /\ LlmOnly
  \/ LlmResolve /\ LlmOnly
  \/ LlmReject /\ LlmOnly

\* POST /api/llm with every kind of body, the clock standing still
Spec == Init /\ [][Next]_vars

NextLimiter ==
  \/ LlmRequestTimed /\ LlmOnly
  \/ LlmResolve /\ LlmOnly
  \/ LlmReject /\ LlmOnly
  \/ Tick /\ LlmOnly

\* POST /api/llm as time passes
SpecLimiter == Init /\ [][NextLimiter]_vars

NextConcurrent ==
  \/ LlmRequestConcurrent /\ LlmOnly
  \/ LlmResolve /\ LlmOnly
  \/ LlmReject /\ LlmOnly
  \/ Tick /\ LlmOnly

\* POST /api/llm with several requests of a user in flight
SpecConcurrent == Init /\ [][NextConcurrent]_vars

NextStorage ==
  \/ createUser /\ DbOnly
  \/ createProject /\ DbOnly
  \/ createFile /\ DbOnly
  \/ updateFile /\ DbOnly
  \/ deleteFile /\ DbOnly
  \/ DeleteProjectFiles /\ DbOnly
  \/ DeleteProjectRow /\ DbOnly

\* the storage layer, its calls interleaving at their awaits
SpecStorage == Init /\ [][NextStorage]_vars

InitPath ==
  InitLlm /\ InitDb /\ PathInputs /\ InitFs /\ InitNi /\ InitApi /\ InitMore

NextPath ==
  \/ CallGetFullPath /\ PathOnly

\* getFullPath applied to every relative path of up to MaxSegments segments
SpecPath == InitPath /\ [][NextPath]_vars

NextFS ==
  \/ ReadFileCall /\ FsOnly
  \/ WriteFileCall /\ FsOnly
  \/ DeleteFileCall /\ FsOnly
  \/ ListFilesCall /\ FsOnly
  \/ CreateFolderCall /\ FsOnly
  \/ FileExistsCall /\ FsOnly

\* calls of the FileSystemManager, one after the other
SpecFS == Init /\ [][NextFS]_vars

NextNI ==
  \/ PairRequest /\ NiOnly
  \/ OtherRequest /\ NiOnly
  \/ Tick /\ LlmOnly

\* the same requests of one user in two runs, as time passes
SpecNI == Init /\ [][NextNI]_vars

NextAuth ==
  \/ LlmEndpoint /\ ApiOnly
  \/ LlmResolve /\ LlmOnly
  \/ LlmReject /\ LlmOnly
  \/ FilesEndpoint /\ ApiOnly
  \/ TreeEndpoint /\ ApiOnly
  \/ FolderEndpoint /\ ApiOnly
  \/ GitStatusEndpoint /\ ApiOnly
  \/ GitBranchesEndpoint /\ ApiOnly
  \/ GitStageEndpoint /\ ApiOnly
  \/ GitUnstageEndpoint /\ ApiOnly
  \/ GitCommitEndpoint /\ ApiOnly
  \/ GitSwitchEndpoint /\ ApiOnly
  \/ GitCreateEndpoint /\ ApiOnly
  \/ GitPullEndpoint /\ ApiOnly
  \/ GitPushEndpoint /\ ApiOnly
  \/ GitDiffEndpoint /\ ApiOnly
  \/ GitHistoryEndpoint /\ ApiOnly

\* requests to the protected endpoints, with and without a session
SpecAuth == Init /\ [][NextAuth]_vars

RowsOnly ==
  UNCHANGED <<llmVars, pathVars, fsVars, niVars, apiVars, filesLast, passLog, gitVars>>

NextRows ==
  \/ CreateUserCall /\ RowsOnly
  \/ createProject /\ DbOnly
  \/ createFile /\ DbOnly
  \/ UpdateFileCall /\ RowsOnly
  \/ deleteFile /\ DbOnly

\* the storage calls on rows, with the outcome of createUser and updateFile
SpecRows == Init /\ [][NextRows]_vars

LogOnly ==
  UNCHANGED <<dbVars, pathVars, fsVars, niVars, apiVars, filesLast, dbLast, gitVars>>

NextSliding ==
  \/ LlmRequestLogged /\ LogOnly
  \/ LlmResolve /\ LlmOnly
  \/ LlmReject /\ LlmOnly
  \/ Tick /\ LlmOnly

\* POST /api/llm as time passes, with the times of the requests that passed
SpecSliding == Init /\ [][NextSliding]_vars

GitOnly ==
  UNCHANGED <<llmVars, dbVars, pathVars, fsVars, niVars, apiVars, filesLast, dbLast, passLog>>

NextGit ==
  \/ EditFile /\ GitOnly
  \/ WriteGitignore /\ GitOnly
  \/ GetBranchesCall /\ GitOnly
  \/ GitStageRequest /\ GitOnly
  \/ GitUnstageRequest /\ GitOnly
  \/ CommitCall /\ GitOnly
  \/ SwitchBranchCall /\ GitOnly

\* the GitManager's calls one after another, among changes to the workspace
SpecGit == Init /\ [][NextGit]_vars

NextStatus ==
  \/ GetStatusCall /\ GitOnly

\* getStatus applied to every result of git status over three paths
SpecStatus == Init /\ [][NextStatus]_vars

NextFiles ==
  \/ FilesRequest
  \/ FolderEndpoint /\ ApiOnly

\* file operations over HTTP, on files and folders
SpecFiles == Init /\ [][NextFiles]_vars

(***************************************************************************)
(* Properties of the rate limiter and of POST /api/llm                     *)
(***************************************************************************)

\* C2: of the authenticated requests of one user that arrive within 60 seconds
\* of the request that opened the user's window, the first 10 pass
\* checkRateLimit and the 11th (and any later one) is answered 429.
C2_EleventhRequestRejected ==
  last.auth =>
    /\ seen[last.user] <= LLM_RATE_LIMIT => last.status # 429
    /\ seen[last.user] > LLM_RATE_LIMIT => last.status = 429

\* the 11th request arrives exactly 60 seconds after the first and is answered 429
C2_Witness ==
  /\ last.auth
  /\ seen[last.user] = LLM_RATE_LIMIT + 1
  /\ last.status = 429
  /\ now = winStart[last.user] + LLM_RATE_WINDOW

\* C3: a request arriving more than 60 seconds after the request that opened
\* the user's window is accepted and opens a new window whose count is 1; and
\* no entry's reset time lies more than 60 seconds ahead, so every rejection
\* ends as time advances.
C3_WindowResets ==
  \A u \in Users :
    /\ llmRequestCounts[u] # NoEntry =>
         llmRequestCounts[u].resetTime <= now + LLM_RATE_WINDOW
    /\ (last.auth /\ last.user = u /\ seen[u] = 1) =>
         /\ last.status # 429
         /\ llmRequestCounts[u] =
              [count |-> 1, resetTime |-> winStart[u] + LLM_RATE_WINDOW]

\* a user who was answered 429 is accepted by the request that follows the window
C3_Witness ==
  \E u \in Users :
    /\ relieved[u]
    /\ last.auth /\ last.user = u /\ last.status = PENDING
    /\ llmRequestCounts[u].count = 1

\* the claim's words for a body that fails llmRequestSchema
BadBody(body) ==
  \/ body.prompt = 0
  \/ body.prompt > 10000
  \/ body.action \notin {"explain", "refactor", "generate-tests", "optimize", NoAction}

Rejected(status) == status \in {400, 401, 429}

\* C7: the assistant is called only by a request that passed the authentication
\* check, then the rate-limit check, then schema validation; a request
\* rejected at one of the three leaves no assistant call behind.
C7_AssistantAfterChecks ==
  /\ last.called # NoCall =>
       /\ last.trace = <<"auth", "rate", "schema", "assistant">>
       /\ last.auth
       /\ seen[last.user] <= LLM_RATE_LIMIT
       /\ ~BadBody(last.body)
       /\ done = NoResponse => awaiting[last.user] = 1
  /\ Rejected(last.status) =>
       /\ last.called = NoCall
       /\ \A i \in 1..Len(last.trace) : last.trace[i] # "assistant"
       /\ \A u \in Users : awaiting[u] = 0

\* the 10th request of a window passes the three checks and calls the assistant
C7_Witness ==
  /\ last.called = "explainCode"
  /\ seen[last.user] = LLM_RATE_LIMIT
  /\ awaiting[last.user] = 1

\* C8: no session: 401 whatever the limiter and the body; a session and over
\* the limit: 429 whatever the body; a session, within the limit and a body
\* that fails llmRequestSchema: 400.
C8_StatusPrecedence ==
  /\ (last # NoRequest /\ ~last.auth) => last.status = 401
  /\ (last.auth /\ seen[last.user] > LLM_RATE_LIMIT) => last.status = 429
  /\ (last.auth /\ seen[last.user] <= LLM_RATE_LIMIT /\ BadBody(last.body)) =>
       last.status = 400

\* an over-limit request with an invalid body is answered 429, not 400
C8_Witness ==
  /\ last.auth
  /\ seen[last.user] > LLM_RATE_LIMIT
  /\ last.body.prompt > MAX_PROMPT
  /\ last.status = 429

\* C10: with requests of a user in flight, and however their assistant calls
\* complete, at most 10 requests of the user pass the limiter in one window.
C10_AtMostTenPerWindow ==
  \A u \in Users : passed[u] <= LLM_RATE_LIMIT

\* the window is full while calls are still in flight, and the next request is refused
C10_Witness ==
  \E u \in Users :
    /\ passed[u] = LLM_RATE_LIMIT
    /\ awaiting[u] = MaxInFlight
    /\ last.user = u /\ last.status = 429

(***************************************************************************)
(* Properties of the storage layer                                         *)
(***************************************************************************)

ProjectGone(id) == getProject(id) = {} /\ getProjectFiles(id) = {}

\* a step of deleteProject(id) leaves every other project, every file of
\* another project and every user as it was
DeleteProjectFrame(id) ==
  /\ {q \in projects : q.id # id} = {q \in projects' : q.id # id}
  /\ {f \in files : f.projectId # id} = {f \in files' : f.projectId # id}
  /\ users' = users

\* C5: once deleteProject(id) has returned, getProject(id) is undefined and
\* getProjectFiles(id) is empty; and no step of the call changes another
\* project or a file of another project.
C5_CascadeDelete ==
  /\ [](\A id \in deleted : ProjectGone(id))
  /\ [][\A id \in ProjectIds :
          deleting'[id] # deleting[id] => DeleteProjectFrame(id)]_vars

\* a project was deleted together with its files while a file of another project stays
C5_Witness ==
  \E id \in deleted \cap cascaded :
    \E f \in files :
      /\ f.projectId \notin {id, NULL_ID}
      /\ getProject(f.projectId) # {}

\* C9: the limit is per user: a user's requests get the same responses, and
\* leave the same entry for that user, in two runs that differ only in the
\* requests of another user.
C9_PerUser ==
  /\ niLast.one = niLast.two
  /\ niCounts[1][SubjectUser] = niCounts[2][SubjectUser]

\* the user is let through in both runs although in the second the other
\* user has used up the limit
C9_Witness ==
  /\ niLast.differ
  /\ niLast.one = PENDING
  /\ niCounts[2][OtherUser].count = LLM_RATE_LIMIT
  /\ niCounts[1][OtherUser] = NoEntry

(***************************************************************************)
(* Properties of the file manager                                          *)
(***************************************************************************)

\* the workspace root or a descendant of it
InsideWorkspace(fullPath) ==
  Len(fullPath) >= Len(workspaceRoot)
    /\ SubSeq(fullPath, 1, Len(workspaceRoot)) = workspaceRoot

\* C1: a relative path that resolves to neither the workspace root nor a
\* descendant of it is rejected with 'Path outside workspace not allowed',
\* whichever method it was handed to.
C1_OutsideRejected ==
  (pathResult # NotCalled /\ ~InsideWorkspace(Resolve(pathArg))) =>
    pathResult.error = OUTSIDE

\* no code unit of the string is a surrogate without its partner
RECURSIVE WellFormed(_)
WellFormed(str) ==
  IF str = <<>> THEN TRUE
  ELSE IF str[1] = "HI"
  THEN Len(str) >= 2 /\ str[2] = "LO" /\ WellFormed(SubSeq(str, 3, Len(str)))
  ELSE str[1] # "LO" /\ WellFormed(Tail(str))

\* the last call was a read of a path inside the workspace that holds a
\* content written and since then neither written again nor deleted
ReadOfWritten(q) ==
  /\ fsLast.op = "readFile"
  /\ q \in Targets(fsLast.path)
  /\ InsideWorkspace(q)
  /\ written[q] # NoContent

ReadsBack(q) == fsLast.error = NoError /\ fsLast.content = written[q]

\* C6 as stated: for every path inside the workspace and every content
\* string c, a read of the path after a successful write of c, with no write
\* or delete of that path in between, returns exactly c.
C6_RoundTripAnyString ==
  \A q \in DiskPaths : ReadOfWritten(q) => ReadsBack(q)

\* C6: for every path inside the workspace and every content string c without
\* an unpaired surrogate, a read of the path after a successful write of c,
\* with no write or delete of that path or of a directory above it in
\* between, returns exactly c, whatever was written to other paths.
C6_RoundTrip ==
  \A q \in DiskPaths :
    (ReadOfWritten(q) /\ WellFormed(written[q]) /\ ~uprooted[q]) => ReadsBack(q)

\* a surrogate pair read back while another path holds a later write
C6_Witness ==
  \E q \in DiskPaths :
    /\ ReadOfWritten(q) /\ ~uprooted[q]
    /\ written[q] = <<"HI", "LO">>
    /\ fsLast.content = <<"HI", "LO">>
    /\ \E o \in DiskPaths \ {q} : written[o] # NoContent

(***************************************************************************)
(* Properties of the protected endpoints                                   *)
(***************************************************************************)

\* C4: a request without an authenticated session to a protected endpoint
\* (POST /api/llm, POST /api/files, GET /api/files/tree, POST
\* /api/files/folder, the Git routes) is answered 401, and the handler has
\* then touched nothing but the session: not the body, the rate limiter, the
\* file system, Git or the assistant.
C4_AuthGate ==
  (reply # NoReply /\ ~reply.auth) =>
    /\ reply.status = 401
    /\ reply.trace = <<"auth">>
    /\ ~reply.touched

\* every endpoint has turned away a request while there was something to
\* touch: the file is on disk, the repository exists, the user has a count
C4_Witness ==
  /\ ~reply.auth
  /\ reply.endpoint \in GitRoutes
  /\ reply.status = 401
  /\ repo.isRepo
  /\ disk[workspaceRoot \o << <<"a">> >>].kind = "file"
  /\ llmRequestCounts[SubjectUser].count > 0

(***************************************************************************)
(* Properties of the handlers' error handling                              *)
(***************************************************************************)

\* an assistant call that fails is answered once, with 500, and is not made
\* again: the step takes one request out of those in flight and leaves the
\* record of the request, and with it the assistant method called, alone
RejectedOnce ==
  [][(done' # done /\ done'.status = 500) =>
       /\ InFlight' = InFlight - 1
       /\ last' = last
       /\ llmRequestCounts' = llmRequestCounts]_vars

\* C11 as stated: a request during which a downstream call (file system, Git,
\* assistant) failed is answered 500.
C11_FailureIs500 == reply.failed # "none" => reply.status = 500

\* C11: a request during which a downstream call failed is answered once,
\* with 500, and the call is not made again; the exception is the
\* ahead/behind query of getStatus, whose failure the GitManager absorbs.
C11_FailureSurfaced ==
  /\ [](reply.failed \notin {"none", "git ahead/behind"} => reply.status = 500)
  /\ RejectedOnce

\* a file operation has failed and been answered 500 after an assistant call
\* was rejected and answered 500
C11_Witness ==
  /\ reply.failed = "fs"
  /\ reply.endpoint = "POST /api/files"
  /\ reply.status = 500
  /\ done.status = 500

(***************************************************************************)
(* Properties of POST /api/files                                           *)
(***************************************************************************)
FilesTarget == Targets(filesLast.body.path)
FilesBelowTarget == UNION {Under(t) : t \in FilesTarget}
FilesAboveTarget == UNION {Prefixes(Dirname(t)) : t \in FilesTarget}

\* what every version of C12 says of read, delete, list and bad bodies
FilesFrameButWrite ==
  LET op == filesLast.body.operation IN
  filesLast.auth =>
    /\ op \in {"read", "list"} => filesLast.changed = {}
    /\ op = "delete" => filesLast.changed \subseteq FilesTarget \cup FilesBelowTarget
    /\ ~fileOperationSchema(filesLast.body) =>
         filesLast.status = 400 /\ filesLast.changed = {}

\* C12 as stated: an authenticated read or list changes nothing, a write
\* changes only the given path, a delete only the given path and what is
\* under it; a body with another operation or an empty path gets 400 and
\* changes nothing.
C12_OnlyTheGivenPath ==
  /\ FilesFrameButWrite
  /\ (filesLast.auth /\ filesLast.body.operation = "write") =>
       filesLast.changed \subseteq FilesTarget

\* C12: the same, where a write changes the given path and besides only
\* creates the directories above it that were missing.
C12_FilesFrame ==
  /\ FilesFrameButWrite
  /\ (filesLast.auth /\ filesLast.body.operation = "write") =>
       /\ filesLast.changed \subseteq FilesTarget \cup FilesAboveTarget
       /\ filesLast.changed \ FilesTarget \subseteq filesLast.created

\* a delete of a folder has removed the file under it, and nothing else
C12_Witness ==
  /\ filesLast.auth
  /\ filesLast.body.operation = "delete"
  /\ filesLast.status = 200
  /\ FilesBelowTarget \cap filesLast.changed # {}
  /\ \E q \in DiskPaths : disk[q].kind = "file"

(***************************************************************************)
(* Properties of the assistant dispatch                                    *)
(***************************************************************************)
MethodOfAction ==
  [a \in LlmActions \cup {NoAction} |->
     IF a = "explain" THEN "explainCode"
     ELSE IF a = "refactor" THEN "refactorCode"
     ELSE IF a = "generate-tests" THEN "generateTests"
     ELSE IF a = "optimize" THEN "optimizeCode"
     ELSE "chatCompletion"]

\* C13: a request that is accepted calls the one assistant method of its
\* action (explain, refactor, generate-tests, optimize; none: chatCompletion),
\* and a request whose action is another string gets 400 (or 401 or 429
\* before that) and calls nothing.
C13_OneMethodPerAction ==
  /\ last.called # NoCall =>
       /\ last.body.action \in DOMAIN MethodOfAction
       /\ last.called = MethodOfAction[last.body.action]
       /\ last.status = PENDING
  /\ (last # NoRequest /\ last.body.action \notin DOMAIN MethodOfAction) =>
       /\ last.called = NoCall
       /\ last.status \in {401, 429, 400}
       /\ (last.auth /\ seen[last.user] <= LLM_RATE_LIMIT) => last.status = 400
  /\ (last # NoRequest /\ last.status = PENDING) => last.called # NoCall

\* a request for tests, not the first of its window, has called generateTests
C13_Witness ==
  /\ last.body.action = "generate-tests"
  /\ last.called = "generateTests"
  /\ seen[last.user] > 1

(***************************************************************************)
(* Properties of the rows                                                  *)
(***************************************************************************)
UpdateFileReturned == dbLast' # dbLast /\ dbLast'.op = "updateFile"

\* C14: updateFile(id, content) on a file there is gives that file the
\* content and changes nothing else of it and no other file; on an id that
\* names no file it fails with 'File not found' and no file changes.
C14_UpdateFileFrame ==
  [][UpdateFileReturned =>
       /\ UNCHANGED <<users, projects>>
       /\ IF \E f \in files : f.id = dbLast'.id
          THEN /\ dbLast'.error = NoDbError
               /\ \E f \in files :
                    /\ f.id = dbLast'.id
                    /\ files' = (files \ {f}) \cup
                         {[id |-> f.id, path |-> f.path, content |-> dbLast'.content,
                           projectId |-> f.projectId]}
          ELSE /\ dbLast'.error = FILE_NOT_FOUND
               /\ files' = files]_vars

\* a file has been given a new content while another file kept its own
C14_Witness ==
  /\ dbLast.op = "updateFile" /\ dbLast.error = NoDbError
  /\ \E f, g \in files :
       /\ f.id = dbLast.id /\ f.content = dbLast.content
       /\ g.id # f.id /\ g.content # f.content

\* a projectId that is set names a project there is
NoDanglingProject == \A f \in files : f.projectId # NULL_ID => \E p \in projects : p.id = f.projectId

\* C15: after any sequence of storage operations every stored file's
\* projectId names a project that exists: no file is stored without a
\* project and none is left pointing at a deleted project.
C15_EveryFileInProject == \A f \in files : \E p \in projects : p.id = f.projectId

CreateUserReturned == dbLast' # dbLast /\ dbLast'.op = "createUser"

UniqueUsernames == \A u, v \in users : u.username = v.username => u = v

\* C16: no two stored users have the same username, and a createUser whose
\* username is taken fails and leaves the set of users unchanged.
C16_UniqueUsername ==
  /\ []UniqueUsernames
  /\ [][CreateUserReturned /\ (\E u \in users : u.username = dbLast'.name) =>
          dbLast'.error = DUPLICATE_USERNAME /\ users' = users]_vars

\* a user is stored and a second createUser with that username has failed,
\* next to a user of another name
C16_Witness ==
  /\ dbLast.op = "createUser" /\ dbLast.error = DUPLICATE_USERNAME
  /\ \E u, v \in users : u.username = dbLast.name /\ v.username # u.username

OwnedByOneUser == \A p \in projects : Cardinality({u \in users : u.id = p.userId}) = 1

\* C17: every stored project is owned by exactly one existing user: its
\* userId names a stored user from the project's creation on and no later
\* storage operation changes it.
C17_OneOwner ==
  /\ []OwnedByOneUser
  /\ [][\A p \in projects, q \in projects' : q.id = p.id => q.userId = p.userId]_vars

\* two users own a project each, and a later operation has stored a file
C17_Witness ==
  /\ \E p, q \in projects : p.userId # q.userId
  /\ \E f \in files : f.projectId # NULL_ID

(***************************************************************************)
(* Properties of the limiter's entries                                     *)
(***************************************************************************)
WindowOpen(u) == llmRequestCounts[u] # NoEntry /\ now <= llmRequestCounts[u].resetTime

\* C18: the window is fixed: a user's resetTime is set by the request that
\* opens a window (no entry, or the window before has expired), to 60
\* seconds after that request, and no later request of the window, accepted
\* or rejected, changes it.
C18_FixedWindow ==
  [][\A u \in Users :
       /\ WindowOpen(u) => llmRequestCounts'[u].resetTime = llmRequestCounts[u].resetTime
       /\ llmRequestCounts'[u].resetTime # llmRequestCounts[u].resetTime =>
            llmRequestCounts'[u].resetTime = now + LLM_RATE_WINDOW]_vars

\* a request has been accepted after time has passed in its window, and the
\* window still ends 60 seconds after the request that opened it
C18_Witness ==
  /\ last.auth /\ last.status = PENDING
  /\ seen[last.user] > 1
  /\ now > winStart[last.user]
  /\ llmRequestCounts[last.user].resetTime = winStart[last.user] + LLM_RATE_WINDOW

CountInRange ==
  \A u \in Users :
    llmRequestCounts[u] # NoEntry =>
      llmRequestCounts[u].count >= 1 /\ llmRequestCounts[u].count <= LLM_RATE_LIMIT

\* C20: every entry of llmRequestCounts has a count from 1 to 10, and a
\* request that checkRateLimit rejects leaves the entry's count and
\* resetTime as they were.
C20_CountInRange ==
  /\ []CountInRange
  /\ [][now' = now /\ last'.status = 429 => llmRequestCounts' = llmRequestCounts]_vars

\* a request has been rejected at a full entry
C20_Witness ==
  /\ last.auth /\ last.status = 429
  /\ llmRequestCounts[last.user].count = LLM_RATE_LIMIT
  /\ \E u \in Users : u # last.user /\ llmRequestCounts[u] # NoEntry

\* the requests of the log's entries i.. that passed before time `end`
RECURSIVE PassedFrom(_, _, _)
PassedFrom(log, i, end) ==
  IF i > Len(log) \/ log[i].at >= end THEN 0
  ELSE log[i].n + PassedFrom(log, i + 1, end)

\* the most requests of user u that passed within 60 seconds: an interval
\* with the most passes can be taken to start at a pass
MostIn60s(u) ==
  LET counts == {PassedFrom(passLog[u], i, passLog[u][i].at + LLM_RATE_WINDOW) :
                   i \in DOMAIN passLog[u]} \cup {0}
  IN CHOOSE m \in counts : \A k \in counts : k <= m

\* C19 as stated: in any interval of 60 seconds, wherever it starts, at most
\* 10 requests of a user pass checkRateLimit.
C19_TenPerAnyInterval == \A u \in Users : MostIn60s(u) <= LLM_RATE_LIMIT

\* C19: in the window of 60 seconds that a request opens at most 10 requests
\* of the user pass checkRateLimit, and in an interval of 60 seconds that
\* starts elsewhere at most 19: up to 9 at the end of one window and 10 at
\* the start of the next.
C19_TenPerWindow ==
  \A u \in Users :
    /\ passed[u] <= LLM_RATE_LIMIT
    /\ MostIn60s(u) <= 2 * LLM_RATE_LIMIT - 1

\* 19 requests of a user have passed within 60 seconds
C19_Witness == \E u \in Users : MostIn60s(u) = 2 * LLM_RATE_LIMIT - 1

(***************************************************************************)
(* Properties of the quota                                                 *)
(***************************************************************************)
\* a step of the clock's instant in which no assistant call completes: a request
RequestStep == now' = now /\ \A u \in Users : awaiting'[u] >= awaiting[u]

\* the user's entry after one more unit of the quota is used at time t
OneUnitUsed(entry, t) ==
  IF entry = NoEntry \/ t > entry.resetTime
  THEN [count |-> 1, resetTime |-> t + LLM_RATE_WINDOW]
  ELSE [count |-> entry.count + 1, resetTime |-> entry.resetTime]

\* C21: every authenticated POST /api/llm request that is not answered 429
\* uses up one unit of the user's quota, also when it is answered 400 for its
\* body or 500 for a failure of the assistant (the completion gives nothing
\* back); an unauthenticated request is answered 401 and creates or changes
\* no entry.
C21_QuotaUsed ==
  [][/\ RequestStep /\ last'.auth /\ last'.status # 429 =>
          llmRequestCounts' =
            [llmRequestCounts EXCEPT ![last'.user] = OneUnitUsed(@, now)]
     /\ RequestStep /\ ~last'.auth =>
          last'.status = 401 /\ llmRequestCounts' = llmRequestCounts
     /\ ~RequestStep => llmRequestCounts' = llmRequestCounts]_vars

\* the tenth unit of a window has been used up by a request answered 400
C21_Witness ==
  /\ last.auth /\ last.status = 400
  /\ seen[last.user] = LLM_RATE_LIMIT
  /\ llmRequestCounts[last.user].count = LLM_RATE_LIMIT

(***************************************************************************)
(* Properties of writes without content                                    *)
(***************************************************************************)
EmptyWrite ==
  filesLast.body.operation = "write" /\ filesLast.body.content = NoContent

\* C22: a POST /api/files request with operation 'write' whose content is
\* absent or "", once authenticated and past the schema, is answered 400
\* 'Content required for write operation'; with or without these it changes
\* nothing on disk, and no file is ever left empty by a request.
C22_ContentRequired ==
  /\ EmptyWrite => filesLast.changed = {} /\ filesLast.status \in {400, 401}
  /\ (EmptyWrite /\ filesLast.auth /\ fileOperationSchema(filesLast.body)) =>
       /\ filesLast.status = 400
       /\ filesLast.error = "Content required for write operation"
  /\ \A q \in DiskPaths : disk[q].kind = "file" => disk[q].bytes # <<>>

\* a write without content to a file that exists has been answered 400
C22_Witness ==
  /\ EmptyWrite /\ filesLast.auth /\ filesLast.status = 400
  /\ \E t \in FilesTarget : disk[t].kind = "file"

(***************************************************************************)
(* Properties of the workspace root                                        *)
(***************************************************************************)
\* C23: no sequence of POST /api/files requests removes the workspace root:
\* a delete whose path resolves to the root is rejected, so the root is a
\* directory in every state after ensureWorkspace.
C23_RootStays == disk[workspaceRoot] = Directory

(***************************************************************************)
(* Properties of deleteProject among other calls                           *)
(***************************************************************************)
\* deleteProject(id) returns or throws in this step
DeleteProjectEnds(id) == deleting[id].pc = "filesDeleted" /\ deleting'[id] = Idle

\* C24: deleteProject(id) is all-or-nothing under any interleaving with
\* createFile calls for the project: when it returns the project and all
\* its files are gone, and when it fails no file of the project has been
\* removed.
C24_AllOrNothing ==
  [][\A id \in ProjectIds :
       DeleteProjectEnds(id) =>
         IF getProjectFiles(id) = {}
         THEN {q \in projects' : q.id = id} = {} /\ {f \in files' : f.projectId = id} = {}
         ELSE ~deleting[id].removed]_vars

(***************************************************************************)
(* Properties of getStatus                                                 *)
(***************************************************************************)
SeqRange(seq) == {seq[i] : i \in 1..Len(seq)}

\* C28: in the result of getStatus each path appears in at most one entry
\* of files, and the staged count is the number of distinct paths git
\* reports as staged.
C28_OneEntryPerPath ==
  LET entries == statusLast.result.files IN
  statusLast.called =>
    /\ \A i, j \in 1..Len(entries) : entries[i].path = entries[j].path => i = j
    /\ statusLast.result.staged = Cardinality(SeqRange(statusLast.status.staged))

(***************************************************************************)
(* Properties of the GitManager                                            *)
(***************************************************************************)
Carries(error, message) == \E i \in 1..Len(error) : error[i] = message

\* what the claim says of a call commit(message) from git to git'
CommitAsClaimed ==
  IF Trim(gitLast'.message) # <<>> /\ git.index # {}
  THEN /\ gitLast'.error = <<>>
       /\ git'.log = Append(git.log, gitLast'.message)
  ELSE /\ Carries(gitLast'.error,
                  IF Trim(gitLast'.message) = <<>> THEN MESSAGE_REQUIRED ELSE NOTHING_STAGED)
       /\ git'.log = git.log
       /\ git'.index = git.index

\* C25 as stated: commit(message) creates a commit only when the message is
\* not blank after trimming and a change is staged; otherwise it fails with
\* 'Commit message is required' or 'No staged changes to commit' and the
\* history and the index are unchanged.
C25_CommitOrUnchanged == [][gitLast'.op = "commit" => CommitAsClaimed]_vars

\* C25: the same in a workspace that is a Git repository already.  In one
\* that is not, the call initialises the repository first: it creates no
\* commit of its own and fails, the index is unchanged, and the history is
\* unchanged or holds the 'Initial commit'.
C25_CommitInRepository ==
  [][gitLast'.op = "commit" =>
       IF git.isRepo THEN CommitAsClaimed
       ELSE /\ gitLast'.error # <<>>
            /\ git'.index = git.index
            /\ git'.log \in {git.log, <<INITIAL_COMMIT>>}]_vars

\* a commit with a blank message has failed with a change staged, and the
\* change is still staged
C25_Witness ==
  /\ gitLast.op = "commit"
  /\ gitLast.message = <<" ">>
  /\ Carries(gitLast.error, MESSAGE_REQUIRED)
  /\ git.index # {}
  /\ Len(git.log) = 1

\* an authenticated request to stage or unstage with the body {files: []}
EmptyFilesRequest ==
  /\ gitLast'.op \in {"stage", "unstage"}
  /\ gitLast'.auth /\ gitLast'.present /\ gitLast'.files = {}

NoFilesMessage == IF gitLast'.op = "stage" THEN NO_FILES_TO_STAGE ELSE NO_FILES_TO_UNSTAGE

\* C26 as stated: a POST /api/git/stage or /api/git/unstage request with
\* the body {files: []} passes the schema, performs no git add or reset and
\* is answered 500 carrying 'No files specified', never with success.
C26_EmptyListIs500 ==
  [][EmptyFilesRequest =>
       /\ gitLast'.status = 500
       /\ Carries(gitLast'.error, NoFilesMessage)
       /\ git'.index = git.index /\ git'.work = git.work /\ git'.log = git.log]_vars

\* C26: such a request is answered 500, never with success, and changes
\* neither the index nor the working tree; in a workspace that is a Git
\* repository already the answer carries 'No files specified' and no git
\* command that changes the repository runs.  In one that is not, the
\* repository is initialised first, and the answer carries 'No files
\* specified' when that went well and 'Git initialization failed' when not.
C26_EmptyListFails ==
  [][EmptyFilesRequest =>
       /\ gitLast'.status = 500
       /\ git'.index = git.index /\ git'.work = git.work
       /\ IF git.isRepo
          THEN git' = git /\ Carries(gitLast'.error, NoFilesMessage)
          ELSE /\ git'.isRepo
               /\ \/ git'.log = <<INITIAL_COMMIT>> /\ Carries(gitLast'.error, NoFilesMessage)
                  \/ git'.log = <<>> /\ Carries(gitLast'.error, INIT_FAILED)]_vars

\* an unstage request with {files: []} has been answered 500 with a path staged
C26_Witness ==
  /\ gitLast.op = "unstage"
  /\ gitLast.auth /\ gitLast.present /\ gitLast.files = {}
  /\ gitLast.status = 500
  /\ Carries(gitLast.error, NO_FILES_TO_UNSTAGE)
  /\ git.index # {}

SwitchedBranch == gitLast'.op = "switchBranch" /\ gitLast'.error = <<>>

InitialCommits == Cardinality({i \in 1..Len(git.log) : git.log[i] = INITIAL_COMMIT})

\* C29: initializeRepository is idempotent: in a workspace that is a Git
\* repository it runs no init, changes no config and makes no commit, so
\* over any sequence of GitManager operations the repository is
\* initialised at most once and the 'Initial commit' is made at most once.
C29_InitialisedOnce ==
  /\ [](git.inits <= 1 /\ git.configs <= 2 /\ InitialCommits <= 1)
  /\ [](git.isRepo =>
          \A initial \in InitialBranchNames :
            gitInitializeRepository(git, initial) = GitReturned(git))
  /\ [][git.isRepo =>
          /\ git'.isRepo /\ git'.inits = git.inits /\ git'.configs = git.configs
          /\ git'.log # git.log => gitLast'.op = "commit" /\ gitLast'.error = <<>>]_vars

\* the repository was initialised with its 'Initial commit', and a later
\* commit and switch of branch have gone through initializeRepository again
C29_Witness ==
  /\ git.inits = 1 /\ InitialCommits = 1
  /\ Len(git.log) = 2
  /\ gitLast.op = "switchBranch" /\ gitLast.error = <<>>

====
